---- MODULE Spec2Model ----
(***************************************************************************)
(* Model of the coordination engine of audiocontrol3                       *)
(* (src/ac3/audio_controller.py, class AudioController) together with the  *)
(* listener plumbing of its backends (src/ac3/player/player_controller.py).*)
(*                                                                         *)
(* A backend is a black box: what it answers to a probe (isActive,         *)
(* isConnected, get_position, get_current_song) and how a command ends     *)
(* (True, False, exception) are inputs drawn by the action that asks.      *)
(*                                                                         *)
(* A call on the engine is one step, but for SpecMutex, where              *)
(* set_active_controller and the worker are steps around self._lock.       *)
(***************************************************************************)
EXTENDS Integers, Sequences, FiniteSets, TLC

\* ------------------------------------------------------------------------
\* Values
\* ------------------------------------------------------------------------

\* Python's None where an id or a controller is expected
None == "none"

\* Python's None where a float (position, timestamp, duration) is expected
NoFloat == -1

\* PlayerController instances that exist in the process.  o1 and o4 carry
\* the same player_id, so a duplicate registration can be told from the
\* stored instance.
Objs == {"o1", "o2", "o3", "o4"}

\* PlayerController.player_id
player_id(o) ==
    CASE o = "o1" -> "a"
      [] o = "o2" -> "b"
      [] o = "o3" -> "c"
      [] o = "o4" -> "a"

Ids == {player_id(o) : o \in Objs}

\* PlayerState values a backend reports in a state-changed event (the engine
\* only tells PLAYING from the rest)
PLAYING == "playing"
PAUSED  == "paused"
STOPPED == "stopped"
PlayerStates == {PLAYING, PAUSED, STOPPED}

\* Largest playback position / song duration a backend reports (seconds)
MaxPos == 1
MaxDur == 1
\* Largest value of the wall clock time.time()
MaxTime == 1
\* Largest auto progress interval a caller sets
MaxInterval == 1
\* Most backend notifications that are under way at the same time
MaxInflight == 1
\* Largest position a caller seeks to (seconds)
MaxSeek == 2

\* Optional[float] answers of get_position() and of song.duration
PosOpt == {NoFloat} \cup (0..MaxPos)
DurOpt == {NoFloat} \cup (1..MaxDur)

\* ------------------------------------------------------------------------
\* State
\* ------------------------------------------------------------------------
VARIABLES
    controllers,   \* self._controllers: dict in insertion order, <<[id, ctrl]>>
    active,        \* self._active_controller_id
    subscribed,    \* backends whose _state_listeners contains the engine
    inflight,      \* backend notifications that copied their listener list
                   \* (engine included) and have not called the engine yet
    lastPos,       \* self._last_known_position
    lastTime,      \* self._last_position_update_time
    songDur,       \* self._current_song_duration
    now,           \* time.time()
    autoProgress,  \* self._auto_progress
    last,          \* the call that was made last: what it was given, what it
                   \* returned and which backends it called
    isPlaying,     \* is_playing, the local variable of _auto_progress_worker
    observed,      \* history: the state the active controller reported last
                   \* (in an event or to get_player_info() of the worker),
                   \* PLAYING once play() succeeded
    suspended,     \* history: pause() or stop() succeeded and no play(),
                   \* seek() or PLAYING report came since
    mutex,         \* self._lock: the thread that holds it, or None
    threads,       \* where each thread is inside a call that is modelled
                   \* step by step, and the locals it holds there
    listeners,     \* self._listeners: a set of (event_type, callback)
    discovered,    \* PluginManager._plugin_classes: the class names found
    plugins,       \* PluginManager._plugins: for each name loaded, which
                   \* instance it is and the _enabled of that instance
    created,       \* how many Plugin instances were constructed
    running,       \* self._auto_progress_running
    thread,        \* self._auto_progress_thread: the worker it is, 0 for None
    workers        \* the threads that run _auto_progress_worker, in the order
                   \* they were started: where each is, its is_playing where
                   \* several run, and whether a stop was requested since it
                   \* was started (history)

vars == <<controllers, active, subscribed, inflight, lastPos, lastTime,
          songDur, now, autoProgress, last, isPlaying, observed, suspended,
          mutex, threads, listeners, discovered, plugins, created, running,
          thread, workers>>

\* ------------------------------------------------------------------------
\* dict helpers (insertion ordered, unique keys)
\* ------------------------------------------------------------------------
Keys(d) == {d[i].id : i \in DOMAIN d}

Values(d) == {d[i].ctrl : i \in DOMAIN d}

\* d.get(k): the stored instance, or None
DictGet(d, k) ==
    IF k \in Keys(d)
    THEN d[CHOOSE i \in DOMAIN d : d[i].id = k].ctrl
    ELSE None

\* d[k] = v: a new key goes to the end, an existing key keeps its place
DictSet(d, k, v) ==
    IF k \in Keys(d)
    THEN [i \in DOMAIN d |-> IF d[i].id = k THEN [id |-> k, ctrl |-> v] ELSE d[i]]
    ELSE Append(d, [id |-> k, ctrl |-> v])

RECURSIVE DictPop(_, _)
\* d.pop(k): the dict without key k, order of the others kept
DictPop(d, k) ==
    IF d = <<>> THEN <<>>
    ELSE IF Head(d).id = k THEN DictPop(Tail(d), k)
    ELSE <<Head(d)>> \o DictPop(Tail(d), k)

\* next(iter(d))
FirstKey(d) == d[1].id

\* ------------------------------------------------------------------------
\* The engine's fields as one value, so that a handler that calls another
\* handler is the composition of the two
\* ------------------------------------------------------------------------
Eng == [controllers |-> controllers, active |-> active, lastPos |-> lastPos,
        lastTime |-> lastTime, songDur |-> songDur, calls |-> {},
        events |-> <<>>, listeners |-> listeners, depth |-> 0, nested |-> 0]

\* A call the engine makes on a backend; arg is NoFloat when there is none
Call(o, method, arg) == [ctrl |-> o, method |-> method, arg |-> arg]

\* What _notify_listeners(kind, data) hands to the listeners of the engine:
\* the id and state of the player of a player_state_change, the position of
\* a position_change, the duration of the song of a song_change, and the
\* active id a listener finds when it is called.  invoked: how many times
\* each callback was called with it; escaped: an exception left
\* _notify_listeners
Event(kind, src, state, num, act, inv) ==
    [kind |-> kind, src |-> src, state |-> state, num |-> num, active |-> act,
     invoked |-> inv.invoked, escaped |-> inv.escaped]

\* Every backend's pause() returns True
NoPause == [o \in Objs |-> "true"]

\* The record of the last call made on the engine.  events: what the call
\* handed to the listeners of the engine, in order; pause: how the pause()
\* of each backend ended, had it been called; cb and had: the callback
\* given to add_listener or remove_listener, and whether the pair was in
\* self._listeners when the call began; burst: the events a backend raised
\* in a row; inst: the Plugin instance a load returned, 0 for None; delta,
\* limit and volumes: the adjustment the loudness plugin computed, its
\* max_adjustment, and the volumes it passed to set_volume; worker: the
\* worker whose iteration it is; nested: how many times
\* on_player_state_change was entered from inside the call
NoCall == [op |-> "init", arg |-> None, ctrl |-> None, num |-> NoFloat,
           result |-> FALSE, raised |-> FALSE, outcome |-> None,
           calls |-> {}, preActive |-> None, playing |-> {}, connected |-> {},
           events |-> <<>>, pause |-> NoPause, report |-> None,
           cb |-> None, had |-> FALSE, burst |-> <<>>, inst |-> 0,
           delta |-> 0, limit |-> 0, volumes |-> {}, worker |-> 0,
           nested |-> 0]

\* The thread of a caller of set_active_controller and the thread of
\* _auto_progress_worker
Threads == {"caller", "worker"}

\* A thread that is not inside a call.  todo and held are for the calls
\* that are followed lock operation by lock operation: what the thread has
\* yet to do, and how many times it holds self._lock
IdleThread == [at |-> "idle", pid |-> None, was |-> None, ctrl |-> None,
               pos |-> NoFloat, todo |-> <<>>, held |-> 0]

\* The places where a thread is inside a method of a backend
BackendCalls == {"sac_get_position", "sac_get_current_song",
                 "worker_get_player_info", "worker_get_position"}

\* A worker that was started: it is about to test the condition of its loop
NewWorker == [at |-> "head", playing |-> FALSE, stopped |-> FALSE]

\* No more than this many workers are started
MaxWorkers == 2

\* The engine fields after a call, and the record of that call
Commit(e, rec) ==
    /\ controllers' = e.controllers
    /\ active' = e.active
    /\ lastPos' = e.lastPos
    /\ lastTime' = e.lastTime
    /\ songDur' = e.songDur
    /\ last' = [rec EXCEPT !.calls = e.calls, !.preActive = active,
                            !.events = e.events, !.nested = e.nested]

\* ------------------------------------------------------------------------
\* Init: AudioController.__init__
\* ------------------------------------------------------------------------
Init ==
    /\ controllers = <<>>
    /\ active = None
    /\ subscribed = {}
    /\ inflight = {}
    /\ lastPos = NoFloat
    /\ lastTime = NoFloat
    /\ songDur = NoFloat
    /\ now = 0
    /\ autoProgress = 0
    /\ last = NoCall
    /\ isPlaying = FALSE
    /\ observed = None
    /\ suspended = FALSE
    /\ mutex = None
    /\ threads = [t \in Threads |-> IdleThread]
    /\ listeners = {}
    /\ discovered = {}
    /\ plugins = <<>>
    /\ created = 0
    /\ running = TRUE
    /\ thread = 1
    /\ workers = <<NewWorker>>

\* ------------------------------------------------------------------------
\* Registry
\* ------------------------------------------------------------------------

\* register_controller without the duplicate check: the instance stored
\* under the id is overwritten
register_controller_overwrite(o) ==
    LET pid == player_id(o)
        rec == [NoCall EXCEPT !.op = "register", !.arg = pid, !.ctrl = o]
    IN
    /\ Commit([Eng EXCEPT !.controllers = DictSet(controllers, pid, o),
                          !.active = IF active = None THEN pid ELSE active],
              [rec EXCEPT !.result = (pid \notin Keys(controllers))])
    /\ subscribed' = subscribed \cup {o}
    /\ UNCHANGED <<inflight, now, autoProgress>>

\* register_controller that makes every new controller the active one
register_controller_promote(o) ==
    LET pid == player_id(o)
        rec == [NoCall EXCEPT !.op = "register", !.arg = pid, !.ctrl = o]
    IN
    IF pid \in Keys(controllers)
    THEN /\ Commit(Eng, [rec EXCEPT !.result = FALSE])
         /\ UNCHANGED <<subscribed, inflight, now, autoProgress>>
    ELSE /\ Commit([Eng EXCEPT !.controllers = DictSet(controllers, pid, o),
                               !.active = pid],
                   [rec EXCEPT !.result = TRUE])
         /\ subscribed' = subscribed \cup {o}
         /\ UNCHANGED <<inflight, now, autoProgress>>

\* register_controller(controller)
register_controller(o) ==
    LET pid == player_id(o)
        rec == [NoCall EXCEPT !.op = "register", !.arg = pid, !.ctrl = o]
    IN
    IF pid \in Keys(controllers)
    THEN /\ Commit(Eng, [rec EXCEPT !.result = FALSE])
         /\ UNCHANGED <<subscribed, inflight, now, autoProgress>>
    ELSE /\ Commit([Eng EXCEPT !.controllers = DictSet(controllers, pid, o),
                               !.active = IF active = None THEN pid ELSE active],
                   [rec EXCEPT !.result = TRUE])
         /\ subscribed' = subscribed \cup {o}
         /\ UNCHANGED <<inflight, now, autoProgress>>

\* unregister_controller that forgets to reassign the active id
ActiveAfterUnregister_stale(act, pid, rest) == act

\* unregister_controller that fails over to the controller registered last
ActiveAfterUnregister_latest(act, pid, rest) ==
    IF act = pid
    THEN IF rest # <<>> THEN rest[Len(rest)].id ELSE None
    ELSE act

\* The active id unregister_controller leaves behind, rest being the
\* registry without pid
ActiveAfterUnregister(act, pid, rest) ==
    IF act = pid
    THEN IF rest # <<>> THEN FirstKey(rest) ELSE None
    ELSE act

\* unregister_controller that pops with a default and reports success for
\* an id that is not registered
unregister_controller_lenient(pid) ==
    LET rec == [NoCall EXCEPT !.op = "unregister", !.arg = pid]
        o == DictGet(controllers, pid)
        rest == DictPop(controllers, pid)
    IN /\ Commit([Eng EXCEPT !.controllers = rest,
                             !.active = ActiveAfterUnregister(active, pid, rest)],
                 [rec EXCEPT !.ctrl = o, !.result = TRUE])
       /\ subscribed' = subscribed \ {o}
       /\ UNCHANGED <<inflight, now, autoProgress>>

\* unregister_controller without controller.remove_state_listener(self)
unregister_controller_listening(pid) ==
    LET rec == [NoCall EXCEPT !.op = "unregister", !.arg = pid] IN
    IF pid \notin Keys(controllers)
    THEN /\ Commit(Eng, [rec EXCEPT !.result = FALSE])
         /\ UNCHANGED <<subscribed, inflight, now, autoProgress>>
    ELSE LET o == DictGet(controllers, pid)
             rest == DictPop(controllers, pid)
         IN /\ Commit([Eng EXCEPT !.controllers = rest,
                                  !.active = ActiveAfterUnregister(active, pid, rest)],
                      [rec EXCEPT !.ctrl = o, !.result = TRUE])
            /\ UNCHANGED <<subscribed, inflight, now, autoProgress>>

\* unregister_controller(player_id)
unregister_controller(pid) ==
    LET rec == [NoCall EXCEPT !.op = "unregister", !.arg = pid] IN
    IF pid \notin Keys(controllers)
    THEN /\ Commit(Eng, [rec EXCEPT !.result = FALSE])
         /\ UNCHANGED <<subscribed, inflight, now, autoProgress>>
    ELSE LET o == DictGet(controllers, pid)
             rest == DictPop(controllers, pid)
         IN /\ Commit([Eng EXCEPT !.controllers = rest,
                                  !.active = ActiveAfterUnregister(active, pid, rest)],
                      [rec EXCEPT !.ctrl = o, !.result = TRUE])
            /\ subscribed' = subscribed \ {o}
            /\ UNCHANGED <<inflight, now, autoProgress>>

\* A set_active_controller that does not look the id up in the registry
SetActiveController_unchecked(e, pid, q) ==
    IF e.active = pid THEN [e |-> e, result |-> TRUE]
    ELSE [e |-> [e EXCEPT !.active = pid,
                          !.lastPos = q.pos,
                          !.lastTime = IF q.pos # NoFloat THEN now ELSE NoFloat,
                          !.songDur = q.dur],
          result |-> TRUE]

\* set_active_controller(player_id) on engine fields e: the fields afterwards
\* and the return value.  q.pos and q.dur are what the controller answers to
\* get_position() and get_current_song().duration.
SetActiveController(e, pid, q) ==
    IF pid \notin Keys(e.controllers) THEN [e |-> e, result |-> FALSE]
    ELSE IF e.active = pid THEN [e |-> e, result |-> TRUE]
    ELSE LET o == DictGet(e.controllers, pid) IN
         [e |-> [e EXCEPT !.active = pid,
                          !.lastPos = q.pos,
                          !.lastTime = IF q.pos # NoFloat THEN now ELSE NoFloat,
                          !.songDur = q.dur,
                          !.calls = @ \cup {Call(o, "get_position", NoFloat),
                                            Call(o, "get_current_song", NoFloat)}],
          result |-> TRUE]

\* set_active_controller(player_id)
set_active_controller(pid, q) ==
    LET r == SetActiveController(Eng, pid, q) IN
    /\ Commit(r.e, [NoCall EXCEPT !.op = "set_active", !.arg = pid,
                                  !.result = r.result])
    /\ UNCHANGED <<subscribed, inflight, now, autoProgress>>

\* Index of the first registry entry whose controller is in set S, 0 if none
FirstIn(d, S) ==
    IF \E i \in DOMAIN d : d[i].ctrl \in S
    THEN CHOOSE i \in DOMAIN d :
            /\ d[i].ctrl \in S
            /\ \A j \in DOMAIN d : d[j].ctrl \in S => i <= j
    ELSE 0

\* auto_select_active_controller with one loop that takes the first
\* controller that is playing or connected
AutoSelect_oneLoop(d, playing, connected) ==
    IF FirstIn(d, playing \cup connected) # 0
    THEN d[FirstIn(d, playing \cup connected)].id
    ELSE None

\* The id auto_select_active_controller picks, None when it finds nothing.
\* playing / connected: the controllers that answer True to isActive() /
\* isConnected()
AutoSelect(d, playing, connected) ==
    IF FirstIn(d, playing) # 0 THEN d[FirstIn(d, playing)].id
    ELSE IF FirstIn(d, connected) # 0 THEN d[FirstIn(d, connected)].id
    ELSE None

\* auto_select_active_controller()
auto_select_active_controller(playing, connected) ==
    LET pick == AutoSelect(controllers, playing, connected) IN
    /\ Commit([Eng EXCEPT !.active = IF pick # None THEN pick ELSE active],
              [NoCall EXCEPT !.op = "auto_select", !.arg = pick,
                             !.result = (pick # None),
                             !.playing = playing, !.connected = connected])
    /\ UNCHANGED <<subscribed, inflight, now, autoProgress>>

\* ------------------------------------------------------------------------
\* Backend events
\* ------------------------------------------------------------------------

\* An active_controller that answers the controller registered first
ActiveController_first(e) ==
    IF e.active = None \/ e.controllers = <<>> THEN None
    ELSE e.controllers[1].ctrl

\* The active_controller property
ActiveController(e) ==
    IF e.active = None THEN None ELSE DictGet(e.controllers, e.active)

\* AudioController.get_position().  q.playing: the active controller's
\* get_player_info() says PLAYING; q.pos: its get_position()
GetPosition(e, q) ==
    LET c == ActiveController(e) IN
    IF /\ autoProgress > 0
       /\ e.lastPos # NoFloat
       /\ e.lastTime # NoFloat
       /\ c # None
       /\ q.playing
    THEN LET position == e.lastPos + (now - e.lastTime) IN
         IF e.songDur # NoFloat /\ position >= e.songDur
         THEN e.songDur
         ELSE position
    ELSE IF c # None THEN q.pos ELSE NoFloat

\* How deep the calls of on_player_state_change from inside
\* on_player_state_change go before the interpreter raises RecursionError
MaxDepth == 2

\* A backend that reports PLAYING from inside its pause()
NestedReport_playing(out) == IF out = "raise" THEN None ELSE PLAYING

\* The state a backend reports to its listeners from inside pause(), None
\* if it reports none: MPDPlayerController, whose pause() returns True,
\* reports the state of the daemon after "pause 1" (PAUSED or STOPPED,
\* which the engine does not tell apart); NullPlayerController, whose
\* pause() returns False, reports "stopped"; a pause() that raises has not
\* got to its report
NestedReport(out) ==
    CASE out = "true" -> PAUSED
      [] out = "false" -> STOPPED
      [] OTHER -> None

RECURSIVE PauseLoop_abort(_, _, _)
RECURSIVE PauseLoop(_, _, _)
RECURSIVE OnPlayerStateChange(_, _, _, _)

\* A loop whose try/except is around the whole loop: the first pause() that
\* raises ends it
PauseLoop_abort(e, items, outs) ==
    IF items = <<>> THEN e
    ELSE IF Head(items).id # e.active
         THEN LET e1 == [e EXCEPT !.calls =
                            @ \cup {Call(Head(items).ctrl, "pause", NoFloat)}]
              IN IF outs[Head(items).ctrl] = "raise"
                 THEN e1
                 ELSE PauseLoop_abort(e1, Tail(items), outs)
         ELSE PauseLoop_abort(e, Tail(items), outs)

\* The loop of pause_other_controllers over self._controllers.items():
\* pause() on every controller whose id is not the active one.  outs[o] is
\* how the pause() of o ends; its return value is dropped and its exception
\* is caught inside the loop.  A backend the engine is subscribed to calls
\* on_player_state_change with its report from inside pause(), in the
\* same thread; a call that would go deeper than the interpreter allows
\* raises RecursionError, which the backend's _notify catches.
PauseLoop(e, items, outs) ==
    IF items = <<>> THEN e
    ELSE IF Head(items).id # e.active
         THEN LET o == Head(items).ctrl
                  st == NestedReport(outs[o])
                  e1 == [e EXCEPT !.calls = @ \cup {Call(o, "pause", NoFloat)}]
                  e2 == IF st # None /\ o \in subscribed /\ e.depth < MaxDepth
                        THEN [OnPlayerStateChange(
                                 [e1 EXCEPT !.depth = @ + 1, !.nested = @ + 1],
                                 player_id(o), st,
                                 [pos |-> NoFloat, dur |-> NoFloat,
                                  playing |-> FALSE, pause |-> outs,
                                  nowPlaying |-> {}])
                              EXCEPT !.depth = e.depth]
                        ELSE e1
              IN PauseLoop(e2, Tail(items), outs)
         ELSE PauseLoop(e, Tail(items), outs)

\* pause_other_controllers()
PauseOtherControllers(e, outs) == PauseLoop(e, e.controllers, outs)

\* self._auto_pause, set in __init__ and never changed
AutoPause == TRUE

\* A handler that never promotes the player that reports PLAYING
Promote_never(e, pid, st, q) == e

\* The first half of on_player_state_change: a player that reports PLAYING
\* and is not the active one becomes the active one
Promote(e, pid, st, q) ==
    IF st = PLAYING /\ pid # e.active
    THEN LET e1 == [e EXCEPT !.active = pid] IN
         IF AutoPause THEN PauseOtherControllers(e1, q.pause) ELSE e1
    ELSE e

\* The values of EventType that are modelled
EventTypes == {"player_state_change", "song_change", "volume_change",
               "position_change"}

\* The callables given to add_listener: functions of a client of the engine
ClientCallbacks == {"listener1", "listener2", "faulty"}

\* The handlers the plugins of the repository give to add_listener
AutoPauseHandler == "AutoPausePlugin._on_player_state_change"
VolumeNormHandler == "VolumeNormalizationPlugin._on_song_change"

\* A callback of a client that takes itself out of the listeners when it
\* is called: remove_listener(event_type, itself)
OneShot == "oneshot"

Callbacks == ClientCallbacks \cup {AutoPauseHandler, VolumeNormHandler, OneShot}

\* A callback is a black box that returns or raises when it is called
Raises(cb) == cb = "faulty"

\* No callback was called
NoneInvoked == [invoked |-> [cb \in Callbacks |-> 0], escaped |-> FALSE]

\* An add that takes a pair out that is registered already
AddListener_toggle(ls, kind, cb) ==
    IF [kind |-> kind, cb |-> cb] \in ls
    THEN ls \ {[kind |-> kind, cb |-> cb]}
    ELSE ls \cup {[kind |-> kind, cb |-> cb]}

\* self._listeners.add((event_type, callback))
AddListener(ls, kind, cb) == ls \cup {[kind |-> kind, cb |-> cb]}

\* self._listeners.discard((event_type, callback))
RemoveListener(ls, kind, cb) == ls \ {[kind |-> kind, cb |-> cb]}

RECURSIVE InvokeAll_abort(_, _, _)
RECURSIVE InvokeAll(_, _, _)
\* The loop of _notify_listeners without the try around callback(data)
InvokeAll_abort(ls, kind, inv) ==
    IF ls = {} THEN inv
    ELSE LET l == CHOOSE x \in ls : TRUE
             called == [inv EXCEPT !.invoked[l.cb] = @ + 1] IN
         IF l.kind # kind THEN InvokeAll_abort(ls \ {l}, kind, inv)
         ELSE IF Raises(l.cb) THEN [called EXCEPT !.escaped = TRUE]
         ELSE InvokeAll_abort(ls \ {l}, kind, called)

\* The loop of _notify_listeners over the pairs ls that are left: a pair of
\* the event's type has its callback called, and what the callback raises
\* is caught and logged
InvokeAll(ls, kind, inv) ==
    IF ls = {} THEN inv
    ELSE LET l == CHOOSE x \in ls : TRUE IN
         InvokeAll(ls \ {l}, kind,
                   IF l.kind = kind
                   THEN [inv EXCEPT !.invoked[l.cb] = @ + 1]
                   ELSE inv)

RECURSIVE InvokeInOrder(_, _, _, _)
\* The for loop of _notify_listeners over the live set ls, order being the
\* pairs its iterator has yet to yield.  The iterator of a set raises
\* RuntimeError when it is asked for the next pair after the size of the
\* set has changed, and the for statement is outside the try.
InvokeInOrder(ls, order, kind, inv) ==
    IF order = <<>> THEN [ls |-> ls, inv |-> inv]
    ELSE LET l == Head(order)
             called == [inv EXCEPT !.invoked[l.cb] = @ + 1] IN
         IF l.kind # kind THEN InvokeInOrder(ls, Tail(order), kind, inv)
         ELSE IF l.cb = OneShot
         THEN [ls |-> RemoveListener(ls, l.kind, l.cb),
               inv |-> [called EXCEPT !.escaped = TRUE]]
         ELSE InvokeInOrder(ls, Tail(order), kind, called)

\* _notify_listeners(kind, data) on engine fields e
NotifyListeners(e, kind, src, state, num) ==
    [e EXCEPT !.events =
        Append(@, Event(kind, src, state, num, e.active,
                        InvokeAll(e.listeners, kind, NoneInvoked)))]

\* ------------------------------------------------------------------------
\* Plugins (src/ac3/addons/plugin.py)
\* ------------------------------------------------------------------------

\* The Plugin subclasses discover_plugins can find: the two of the
\* repository and one of a third party, whose hooks are a black box
PluginClasses == {"AutoPausePlugin", "VolumeNormalizationPlugin",
                  "CustomPlugin"}

\* Plugin.name: the class name unless the class overrides it
PluginName(cls) ==
    CASE cls = "AutoPausePlugin" -> "AutoPause"
      [] cls = "VolumeNormalizationPlugin" -> "VolumeNormalization"
      [] OTHER -> cls

\* The str a plugin of the repository gives to add_listener as event type;
\* a str is not equal to any member of EventType
StrPlayerStateChange == "'player_state_change'"
StrSongChange == "'song_change'"

\* How _enable_plugin and _disable_plugin can end: the hooks of the
\* repository return True when set_audio_controller was called
Hooks == {"true", "false", "raise"}
HookOutcomes(name) == IF name = "CustomPlugin" THEN Hooks ELSE {"true"}

\* No more than this many Plugin instances are constructed
MaxInstances == 4

\* The manager's fields and the engine's listeners as one value; hooks: the
\* hooks called, ret: the instance a load returned
Mgr == [discovered |-> discovered, plugins |-> plugins, created |-> created,
        listeners |-> listeners, hooks |-> {}, ret |-> 0]

\* A load that stores the new instance whatever is loaded
LoadPlugin_replace(m, cls) ==
    LET n == m.created + 1 IN
    [m EXCEPT !.created = n, !.ret = n,
              !.plugins = [name \in DOMAIN @ \cup {PluginName(cls)} |->
                             IF name = PluginName(cls)
                             THEN [inst |-> n, enabled |-> FALSE]
                             ELSE @[name]]]

\* PluginManager.load_plugin(plugin_class): a new instance is constructed
\* and stored under its name, unless the name is loaded
LoadPlugin(m, cls) ==
    LET n == m.created + 1
        name == PluginName(cls) IN
    IF name \in DOMAIN m.plugins
    THEN [m EXCEPT !.created = n, !.ret = m.plugins[name].inst]
    ELSE [m EXCEPT !.created = n, !.ret = n,
                   !.plugins = @ @@ (name :> [inst |-> n, enabled |-> FALSE])]

\* PluginManager.load_plugin_by_name(plugin_name): _plugins is keyed by
\* Plugin.name, _plugin_classes by the name of the class
LoadPluginByName(m, name) ==
    IF name \in DOMAIN m.plugins THEN [m EXCEPT !.ret = m.plugins[name].inst]
    ELSE IF name \in m.discovered THEN LoadPlugin(m, name)
    ELSE [m EXCEPT !.ret = 0]

RECURSIVE LoadAll(_, _)
\* PluginManager.load_all_plugins over the classes that are left
LoadAll(m, classes) ==
    IF classes = {} THEN m
    ELSE LET cls == CHOOSE c \in classes : TRUE IN
         LoadAll(LoadPlugin(m, cls), classes \ {cls})

\* _enable_plugin of the plugin called name, ending as out
EnableHook(m, name, out) ==
    LET m1 == [m EXCEPT !.hooks = @ \cup {<<name, "_enable_plugin">>}] IN
    CASE out = "true" /\ name = "AutoPause" ->
           [m1 EXCEPT !.listeners =
               AddListener(@, StrPlayerStateChange, AutoPauseHandler)]
      [] out = "true" /\ name = "VolumeNormalization" ->
           [m1 EXCEPT !.listeners =
               AddListener(@, StrSongChange, VolumeNormHandler)]
      [] OTHER -> m1

\* _disable_plugin of the plugin called name, ending as out
DisableHook(m, name, out) ==
    LET m1 == [m EXCEPT !.hooks = @ \cup {<<name, "_disable_plugin">>}] IN
    CASE out = "true" /\ name = "AutoPause" ->
           [m1 EXCEPT !.listeners =
               RemoveListener(@, StrPlayerStateChange, AutoPauseHandler)]
      [] out = "true" /\ name = "VolumeNormalization" ->
           [m1 EXCEPT !.listeners =
               RemoveListener(@, StrSongChange, VolumeNormHandler)]
      [] OTHER -> m1

\* An enable that calls the hook of a plugin that is enabled
PluginEnable_always(m, name, out) ==
    [m |-> [EnableHook(m, name, out) EXCEPT
               !.plugins[name].enabled = (out = "true")],
     result |-> out = "true"]

\* Plugin.enable() of the instance loaded as name: nothing to do when it
\* is enabled, else _enabled becomes what the hook returns, and what the
\* hook raises is caught
PluginEnable(m, name, out) ==
    IF m.plugins[name].enabled THEN [m |-> m, result |-> TRUE]
    ELSE IF out = "raise"
    THEN [m |-> EnableHook(m, name, out), result |-> FALSE]
    ELSE [m |-> [EnableHook(m, name, out) EXCEPT
                    !.plugins[name].enabled = (out = "true")],
          result |-> out = "true"]

\* A disable that clears _enabled before it calls the hook
PluginDisable_eager(m, name, out) ==
    IF ~m.plugins[name].enabled THEN [m |-> m, result |-> TRUE]
    ELSE [m |-> [DisableHook(m, name, out) EXCEPT
                    !.plugins[name].enabled = FALSE],
          result |-> out = "true"]

\* Plugin.disable() of the instance loaded as name: nothing to do when it
\* is not enabled, else _enabled becomes the negation of what the hook
\* returns, and what the hook raises is caught
PluginDisable(m, name, out) ==
    IF ~m.plugins[name].enabled THEN [m |-> m, result |-> TRUE]
    ELSE IF out = "raise"
    THEN [m |-> DisableHook(m, name, out), result |-> FALSE]
    ELSE [m |-> [DisableHook(m, name, out) EXCEPT
                    !.plugins[name].enabled = ~(out = "true")],
          result |-> out = "true"]

\* The manager's fields after a call, and the record of that call
CommitMgr(m, rec) ==
    /\ discovered' = m.discovered
    /\ plugins' = m.plugins
    /\ created' = m.created
    /\ listeners' = m.listeners
    /\ last' = [rec EXCEPT !.calls = m.hooks, !.inst = m.ret]
    /\ UNCHANGED <<controllers, active, subscribed, inflight, lastPos,
                   lastTime, songDur, now, autoProgress>>

\* PluginManager.discover_plugins(package) that finds every class
discover_plugins ==
    CommitMgr([Mgr EXCEPT !.discovered = PluginClasses],
              [NoCall EXCEPT !.op = "discover_plugins"])

\* PluginManager.load_plugin(plugin_class)
load_plugin(cls) ==
    /\ created < MaxInstances
    /\ CommitMgr(LoadPlugin(Mgr, cls),
                 [NoCall EXCEPT !.op = "load_plugin", !.arg = PluginName(cls)])

\* PluginManager.load_plugin_by_name(plugin_name)
load_plugin_by_name(name) ==
    /\ name \in DOMAIN plugins \/ created < MaxInstances
    /\ CommitMgr(LoadPluginByName(Mgr, name),
                 [NoCall EXCEPT !.op = "load_plugin_by_name", !.arg = name])

\* PluginManager.load_all_plugins()
load_all_plugins ==
    /\ created + Cardinality(discovered) <= MaxInstances
    /\ CommitMgr(LoadAll(Mgr, discovered),
                 [NoCall EXCEPT !.op = "load_all_plugins"])

\* PluginManager.enable_plugin(plugin_id), the hook ending as out: an id
\* that is not loaded is loaded by name first, and then _plugins[plugin_id]
\* is looked up, which raises KeyError when the class was found under
\* plugin_id and its instance stored under another name
enable_plugin(id, out) ==
    /\ id \in DOMAIN plugins \/ created < MaxInstances
    /\ LET m1 == IF id \in DOMAIN plugins THEN Mgr
                 ELSE LoadPluginByName(Mgr, id)
           rec == [NoCall EXCEPT !.op = "enable_plugin", !.arg = id,
                                 !.outcome = out] IN
       IF id \notin DOMAIN plugins /\ m1.ret = 0 THEN CommitMgr(m1, rec)
       ELSE IF id \notin DOMAIN m1.plugins
       THEN CommitMgr(m1, [rec EXCEPT !.raised = TRUE])
       ELSE /\ out \in HookOutcomes(id)
            /\ LET r == PluginEnable(m1, id, out) IN
               CommitMgr(r.m, [rec EXCEPT !.result = r.result])

\* PluginManager.disable_plugin(plugin_id), the hook ending as out
disable_plugin(id, out) ==
    LET rec == [NoCall EXCEPT !.op = "disable_plugin", !.arg = id,
                              !.outcome = out] IN
    IF id \notin DOMAIN plugins THEN CommitMgr(Mgr, rec)
    ELSE /\ out \in HookOutcomes(id)
         /\ LET r == PluginDisable(Mgr, id, out) IN
            CommitMgr(r.m, [rec EXCEPT !.result = r.result])

\* add_listener(event_type, callback)
add_listener(kind, cb) ==
    /\ listeners' = AddListener(listeners, kind, cb)
    /\ last' = [NoCall EXCEPT !.op = "add_listener", !.arg = kind, !.cb = cb,
                              !.had = [kind |-> kind, cb |-> cb] \in listeners]
    /\ UNCHANGED <<controllers, active, subscribed, inflight, lastPos,
                   lastTime, songDur, now, autoProgress>>

\* remove_listener(event_type, callback)
remove_listener(kind, cb) ==
    /\ listeners' = RemoveListener(listeners, kind, cb)
    /\ last' = [NoCall EXCEPT !.op = "remove_listener", !.arg = kind,
                              !.cb = cb,
                              !.had = [kind |-> kind, cb |-> cb] \in listeners]
    /\ UNCHANGED <<controllers, active, subscribed, inflight, lastPos,
                   lastTime, songDur, now, autoProgress>>

\* _notify_listeners(event_type, data), called by a handler of the engine,
\* among callbacks that change self._listeners; order: the order in which
\* the set yields its pairs
notify_listeners(kind, num, order) ==
    LET r == InvokeInOrder(listeners, order, kind, NoneInvoked) IN
    /\ listeners' = r.ls
    /\ last' = [NoCall EXCEPT !.op = "notify_listeners", !.arg = kind,
                              !.num = num, !.raised = r.inv.escaped,
                              !.events = <<Event(kind, None, None, num,
                                                 active, r.inv)>>]
    /\ UNCHANGED <<controllers, active, subscribed, inflight, lastPos,
                   lastTime, songDur, now, autoProgress>>

\* The second half of on_player_state_change: the extrapolation state
\* follows the active player's state, and the report goes to the listeners
\* of the engine
TrackState(e, pid, st, q) ==
    IF pid = e.active \/ (st = PLAYING /\ e.active = None)
    THEN LET e1 == IF st = PLAYING /\ e.active = None
                   THEN SetActiveController(e, pid, q).e
                   ELSE e
             e2 == IF st = PLAYING
                   THEN LET current_pos == GetPosition(e1, q) IN
                        IF current_pos # NoFloat
                        THEN [e1 EXCEPT !.lastPos = current_pos, !.lastTime = now]
                        ELSE e1
                   ELSE [e1 EXCEPT !.lastTime = NoFloat]
         IN NotifyListeners(e2, "player_state_change", pid, st, NoFloat)
    ELSE e

\* An on_player_state_change that tracks and hands the report to the
\* listeners first and promotes the player afterwards
OnPlayerStateChange_late(e, pid, st, q) ==
    Promote(TrackState(e, pid, st, q), pid, st, q)

\* on_player_state_change(player) with player.player_id = pid and
\* player.state = st.  q.pause: how the pause() of each backend ends.
OnPlayerStateChange(e, pid, st, q) ==
    TrackState(Promote(e, pid, st, q), pid, st, q)

\* PlayerController._notify_player_state_change, first step: backend o
\* copies its listener list, which holds the engine, to call each listener.
\* The notifying thread of a backend calls its listeners one after the
\* other, so a backend has one notification under way at a time.
NotifyPlayerStateChange(o, st) ==
    /\ o \in subscribed
    /\ Cardinality(inflight) < MaxInflight
    /\ \A n \in inflight : n.ctrl # o
    /\ inflight' = inflight \cup {[ctrl |-> o, state |-> st]}
    /\ UNCHANGED <<controllers, active, subscribed, lastPos, lastTime,
                   songDur, now, autoProgress, last>>

\* PlayerController._notify_player_state_change, second step: the copied
\* listener list is walked and the engine's on_player_state_change runs.
\* q.nowPlaying: the backends whose get_player_info() says PLAYING while the
\* handler runs (the handler does not ask).
\* The handler is one step: what it reads before it takes the lock (line
\* 276) another thread could only change by a registry call or a delivery,
\* and those may come between the two steps of the notification.
DeliverPlayerStateChange(n, q) ==
    /\ n \in inflight
    /\ inflight' = inflight \ {n}
    /\ Commit(OnPlayerStateChange(Eng, player_id(n.ctrl), n.state, q),
              [NoCall EXCEPT !.op = "on_player_state_change",
                             !.arg = player_id(n.ctrl), !.ctrl = n.ctrl,
                             !.outcome = n.state,
                             !.playing = q.nowPlaying, !.pause = q.pause])
    /\ UNCHANGED <<subscribed, now, autoProgress>>

\* ------------------------------------------------------------------------
\* Commands
\* ------------------------------------------------------------------------

\* The public commands that are forwarded to the active controller
Commands == {"play", "pause", "stop", "next", "previous", "set_volume",
             "mute", "seek", "set_shuffle", "set_loop_mode"}

\* How a backend command ends: it returns True, returns False or raises
Outcomes == {"true", "false", "raise"}

\* No state-changed event is raised from inside the backend command
NoEvent == "no_event"

\* What the engine does after the backend command returned True
AfterSuccess(e, cmd, num, q) ==
    CASE cmd = "play"  -> IF q.pos # NoFloat
                          THEN [e EXCEPT !.lastPos = q.pos, !.lastTime = now]
                          ELSE e
      [] cmd = "pause" -> [e EXCEPT !.lastTime = NoFloat]
      [] cmd = "stop"  -> [e EXCEPT !.lastTime = NoFloat, !.lastPos = 0]
      [] cmd = "seek"  -> [e EXCEPT !.lastPos = num, !.lastTime = now]
      [] OTHER -> e

\* The backend calls the engine makes after the backend command returned True
CallsAfterSuccess(c, cmd) ==
    IF cmd = "play" THEN {Call(c, "get_position", NoFloat)} ELSE {}

\* The volume range of MPDPlayerController.set_volume
VolumeMin == 0
VolumeMax == 100

\* A set_volume that hands the volume to the daemon as it got it
MPDVolume_asGiven(volume) == volume

\* max(0, min(100, volume)), the volume MPDPlayerController.set_volume
\* hands to the daemon and reports to its listeners
MPDVolume(volume) ==
    IF volume > VolumeMax THEN VolumeMax
    ELSE IF volume < VolumeMin THEN VolumeMin
    ELSE volume

\* on_volume_change(volume)
OnVolumeChange(e, volume) ==
    IF e.active # None
    THEN NotifyListeners(e, "volume_change", None, None, volume)
    ELSE e

\* A command that does its bookkeeping although no controller is active
Forward_unguarded(e, cmd, num, out, emit, q) ==
    [e |-> AfterSuccess(e, cmd, num, q), result |-> FALSE, raised |-> FALSE]

\* A public command cmd(num) on engine fields e.  out: how the active
\* controller's method ends; emit: the state it reports to its listeners
\* from inside the method (MPDPlayerController and NullPlayerController do),
\* or NoEvent.  The result: the fields afterwards, the return value, and
\* whether an exception left the command.  A set_volume that returns True
\* has reported the volume it set to its listeners.
Forward(e, cmd, num, out, emit, q) ==
    LET c == ActiveController(e) IN
    IF c = None
    THEN [e |-> e, result |-> FALSE, raised |-> FALSE]
    ELSE LET e1 == [e EXCEPT !.calls = @ \cup {Call(c, cmd, num)}]
             e1v == IF cmd = "set_volume" /\ out = "true" /\ c \in subscribed
                    THEN OnVolumeChange(e1, MPDVolume(num))
                    ELSE e1
             e2 == IF emit # NoEvent /\ c \in subscribed
                   THEN OnPlayerStateChange(e1v, player_id(c), emit, q)
                   ELSE e1v
         IN CASE out = "raise" -> [e |-> e2, result |-> FALSE, raised |-> TRUE]
              [] out = "false" -> [e |-> e2, result |-> FALSE, raised |-> FALSE]
              [] out = "true"  ->
                    [e |-> [AfterSuccess(e2, cmd, num, q) EXCEPT
                               !.calls = @ \cup CallsAfterSuccess(c, cmd)],
                     result |-> TRUE, raised |-> FALSE]

\* The arguments a caller passes: a position to seek, a volume to
\* set_volume, 0/1 for the flag of mute and set_shuffle, the loop mode of
\* set_loop_mode, nothing (NoFloat) otherwise
Args(cmd) ==
    CASE cmd = "seek" -> 0..MaxPos
      [] cmd = "set_volume" -> {VolumeMin - 5, VolumeMin, VolumeMax, VolumeMax + 50}
      [] cmd \in {"mute", "set_shuffle"} -> {0, 1}
      [] cmd = "set_loop_mode" -> {0}
      [] OTHER -> {NoFloat}

\* play(), pause(), stop(), next(), previous(), set_volume(v), mute(m),
\* seek(p), set_shuffle(s), set_loop_mode(m)
command(cmd, num, out, emit, q) ==
    LET r == Forward(Eng, cmd, num, out, emit, q) IN
    /\ Commit(r.e, [NoCall EXCEPT !.op = cmd, !.num = num,
                                  !.ctrl = ActiveController(Eng),
                                  !.result = r.result, !.raised = r.raised,
                                  !.outcome = out,
                                  !.report =
                                     IF /\ emit # NoEvent
                                        /\ ActiveController(Eng) \in subscribed
                                     THEN emit ELSE None])
    /\ UNCHANGED <<subscribed, inflight, now, autoProgress>>

\* on_song_change(song), dur being song.duration, NoFloat when the song or
\* its duration is None
OnSongChange(e, dur) ==
    IF e.active # None
    THEN NotifyListeners([e EXCEPT !.songDur = dur, !.lastPos = 0,
                                   !.lastTime = now],
                         "song_change", None, None, dur)
    ELSE e

\* on_position_change(position)
OnPositionChange(e, pos) ==
    IF e.active # None
    THEN NotifyListeners([e EXCEPT !.lastPos = pos, !.lastTime = now],
                         "position_change", None, None, pos)
    ELSE e

\* PlayerController._notify_song_change of backend o and the engine's
\* on_song_change, in one step (the two steps of a notification matter
\* where a controller is unregistered in between)
on_song_change(o, dur) ==
    /\ o \in subscribed
    /\ Commit(OnSongChange(Eng, dur),
              [NoCall EXCEPT !.op = "on_song_change", !.ctrl = o, !.num = dur])
    /\ UNCHANGED <<subscribed, inflight, now, autoProgress>>

\* PlayerController._notify_position_change of backend o and the engine's
\* on_position_change, in one step
on_position_change(o, pos) ==
    /\ o \in subscribed
    /\ Commit(OnPositionChange(Eng, pos),
              [NoCall EXCEPT !.op = "on_position_change", !.ctrl = o,
                             !.num = pos])
    /\ UNCHANGED <<subscribed, inflight, now, autoProgress>>

\* "if not is_playing": the worker asks the active controller for its state
\* only while it does not know it to be playing
AskState(playing) == ~playing

\* A worker that goes on as confirmed playing at the end of the song
Extrapolate_keepsPlaying(e, playing) ==
    LET elapsed == now - e.lastTime IN
    IF e.lastPos # NoFloat /\ e.lastTime # NoFloat /\ elapsed >= autoProgress
    THEN LET atEnd == e.songDur # NoFloat /\ e.lastPos + elapsed >= e.songDur
             new_position == IF atEnd THEN e.songDur ELSE e.lastPos + elapsed
         IN [e |-> NotifyListeners(
                      [e EXCEPT !.lastPos = new_position, !.lastTime = now],
                      "position_change", None, None, new_position),
             playing |-> playing]
    ELSE [e |-> e, playing |-> playing]

\* The second locked block of an iteration of _auto_progress_worker: the
\* stored position moves on by the time that passed, but not beyond the
\* end of the song, and goes to the listeners
Extrapolate(e, playing) ==
    LET elapsed == now - e.lastTime IN
    IF e.lastPos # NoFloat /\ e.lastTime # NoFloat /\ elapsed >= autoProgress
    THEN LET atEnd == e.songDur # NoFloat /\ e.lastPos + elapsed >= e.songDur
             new_position == IF atEnd THEN e.songDur ELSE e.lastPos + elapsed
         IN [e |-> NotifyListeners(
                      [e EXCEPT !.lastPos = new_position, !.lastTime = now],
                      "position_change", None, None, new_position),
             playing |-> playing /\ ~atEnd]
    ELSE [e |-> e, playing |-> playing]

\* One iteration of the loop of _auto_progress_worker after its sleep.
\* st and pos: what the active controller answers to get_player_info() and
\* get_position(), should the iteration ask.  The result: the engine
\* fields, is_playing and the state the iteration was told (None if it did
\* not ask).
AutoProgressIteration(e, playing, st, pos) ==
    LET c == ActiveController(e) IN
    IF autoProgress <= 0 \/ c = None
    THEN [e |-> e, playing |-> FALSE, told |-> None]
    ELSE IF AskState(playing) /\ st # PLAYING
    THEN [e |-> [e EXCEPT !.calls = {Call(c, "get_player_info", NoFloat)}],
          playing |-> playing, told |-> st]
    ELSE LET asked == AskState(playing)
             e1 == IF asked /\ e.lastPos = NoFloat
                   THEN [e EXCEPT !.lastPos = IF pos = NoFloat THEN 0 ELSE pos,
                                  !.lastTime = now,
                                  !.calls = {Call(c, "get_player_info", NoFloat),
                                             Call(c, "get_position", NoFloat)}]
                   ELSE IF asked
                   THEN [e EXCEPT !.calls = {Call(c, "get_player_info", NoFloat)}]
                   ELSE e
             r == Extrapolate(e1, TRUE)
         IN [e |-> r.e, playing |-> r.playing,
             told |-> IF asked THEN st ELSE None]

\* _auto_progress_worker: one iteration of its loop
auto_progress_tick(st, pos) ==
    LET r == AutoProgressIteration(Eng, isPlaying, st, pos) IN
    /\ Commit(r.e, [NoCall EXCEPT !.op = "tick", !.ctrl = ActiveController(Eng),
                                  !.report = r.told])
    /\ isPlaying' = r.playing
    /\ UNCHANGED <<subscribed, inflight, now, autoProgress>>

\* ------------------------------------------------------------------------
\* set_active_controller and the worker step by step: where a thread takes
\* self._lock, where it is inside a method of a backend, where it releases
\* the lock
\* ------------------------------------------------------------------------

\* Thread t moves to place at
Goto(t, at) == [threads EXCEPT ![t].at = at]

\* set_active_controller(player_id) takes the lock, checks the id and makes
\* it the active one; it returns at once for an id that is not registered
\* or is active already, and else goes on to controller.get_position()
\* with the lock held
set_active_begin(pid) ==
    /\ threads["caller"].at = "idle"
    /\ mutex = None
    /\ IF pid \notin Keys(controllers) \/ active = pid
       THEN /\ Commit(Eng, [NoCall EXCEPT !.op = "set_active", !.arg = pid,
                                          !.result = (pid \in Keys(controllers))])
            /\ UNCHANGED <<mutex, threads>>
       ELSE /\ active' = pid
            /\ mutex' = "caller"
            /\ threads' = [threads EXCEPT !["caller"] =
                              [IdleThread EXCEPT
                                 !.at = "sac_get_position", !.pid = pid,
                                 !.was = active,
                                 !.ctrl = DictGet(controllers, pid)]]
            /\ UNCHANGED <<controllers, lastPos, lastTime, songDur, last>>
    /\ UNCHANGED <<subscribed, inflight, now, autoProgress, isPlaying,
                   observed, suspended>>

\* controller.get_position() returns pos; controller.get_current_song() is
\* called
set_active_got_position(pos) ==
    /\ threads["caller"].at = "sac_get_position"
    /\ threads' = [threads EXCEPT !["caller"].at = "sac_get_current_song",
                                  !["caller"].pos = pos]
    /\ UNCHANGED <<controllers, active, subscribed, inflight, lastPos,
                   lastTime, songDur, now, autoProgress, last, isPlaying,
                   observed, suspended, mutex>>

\* controller.get_current_song() returns a song of duration dur; the
\* extrapolation state is stored, the lock released
set_active_got_song(dur) ==
    LET me == threads["caller"] IN
    /\ me.at = "sac_get_current_song"
    /\ lastPos' = me.pos
    /\ lastTime' = IF me.pos # NoFloat THEN now ELSE NoFloat
    /\ songDur' = dur
    /\ mutex' = None
    /\ threads' = [threads EXCEPT !["caller"] = IdleThread]
    /\ last' = [NoCall EXCEPT !.op = "set_active", !.arg = me.pid,
                              !.result = TRUE, !.preActive = me.was,
                              !.calls = {Call(me.ctrl, "get_position", NoFloat),
                                         Call(me.ctrl, "get_current_song", NoFloat)}]
    /\ UNCHANGED <<controllers, active, subscribed, inflight, now,
                   autoProgress, isPlaying, observed, suspended>>

\* An iteration of the worker starts: with auto progress off or no active
\* controller it ends at once; else it asks the active controller for its
\* state if it does not know it to be playing
worker_begin ==
    LET c == ActiveController(Eng) IN
    /\ threads["worker"].at = "idle"
    /\ IF autoProgress <= 0 \/ c = None
       THEN /\ isPlaying' = FALSE
            /\ Commit(Eng, [NoCall EXCEPT !.op = "tick", !.ctrl = c])
            /\ UNCHANGED threads
       ELSE /\ threads' = [threads EXCEPT !["worker"] =
                              [IdleThread EXCEPT
                                 !.at = IF AskState(isPlaying)
                                        THEN "worker_get_player_info"
                                        ELSE "worker_extrapolate",
                                 !.ctrl = c]]
            /\ UNCHANGED <<controllers, active, lastPos, lastTime, songDur,
                           last, isPlaying>>
    /\ UNCHANGED <<subscribed, inflight, now, autoProgress, observed,
                   suspended, mutex>>

\* active_controller.get_player_info() returns state st
worker_told(st) ==
    LET me == threads["worker"] IN
    /\ me.at = "worker_get_player_info"
    /\ IF st # PLAYING
       THEN /\ threads' = [threads EXCEPT !["worker"] = IdleThread]
            /\ Commit([Eng EXCEPT !.calls = {Call(me.ctrl, "get_player_info", NoFloat)}],
                      [NoCall EXCEPT !.op = "tick", !.ctrl = me.ctrl,
                                     !.report = st])
            /\ UNCHANGED isPlaying
       ELSE /\ threads' = Goto("worker", "worker_init")
            /\ isPlaying' = TRUE
            /\ UNCHANGED <<controllers, active, lastPos, lastTime, songDur,
                           last>>
    /\ UNCHANGED <<subscribed, inflight, now, autoProgress, observed,
                   suspended, mutex>>

\* The worker takes the lock to initialise the position: with no stored
\* position it goes on to active_controller.get_position() with the lock
\* held, else it releases the lock
worker_init ==
    /\ threads["worker"].at = "worker_init"
    /\ mutex = None
    /\ IF lastPos = NoFloat
       THEN /\ mutex' = "worker"
            /\ threads' = Goto("worker", "worker_get_position")
       ELSE /\ threads' = Goto("worker", "worker_extrapolate")
            /\ UNCHANGED mutex
    /\ UNCHANGED <<controllers, active, subscribed, inflight, lastPos,
                   lastTime, songDur, now, autoProgress, last, isPlaying,
                   observed, suspended>>

\* active_controller.get_position() returns pos; the position is stored,
\* the lock released
worker_got_position(pos) ==
    /\ threads["worker"].at = "worker_get_position"
    /\ lastPos' = IF pos = NoFloat THEN 0 ELSE pos
    /\ lastTime' = now
    /\ mutex' = None
    /\ threads' = Goto("worker", "worker_extrapolate")
    /\ UNCHANGED <<controllers, active, subscribed, inflight, songDur, now,
                   autoProgress, last, isPlaying, observed, suspended>>

\* The worker takes the lock for its second block and ends the iteration
worker_extrapolate ==
    LET me == threads["worker"]
        r == Extrapolate(Eng, isPlaying)
    IN
    /\ me.at = "worker_extrapolate"
    /\ mutex = None
    /\ Commit(r.e, [NoCall EXCEPT !.op = "tick", !.ctrl = me.ctrl])
    /\ isPlaying' = r.playing
    /\ threads' = [threads EXCEPT !["worker"] = IdleThread]
    /\ UNCHANGED <<subscribed, inflight, now, autoProgress, observed,
                   suspended, mutex>>

\* ------------------------------------------------------------------------
\* self._lock alone: what each method does with the lock, in the order it
\* does it.  "acq" and "rel" are the entry and the exit of a "with
\* self._lock", "call" is a call of a method of a backend, which returns,
\* "notify" is _notify_listeners, where a callback runs in the thread.  What
\* the methods read and write under the lock is in the actions above.
\* ------------------------------------------------------------------------

\* The methods followed, "tick" being an iteration of _auto_progress_worker
LockMethods == {"set_active_controller", "on_player_state_change",
                "on_position_change", "play", "get_position", "tick"}

LockProgram(m) ==
    CASE m = "set_active_controller" ->
           <<"acq", "call", "call", "acq", "rel", "rel">>
      [] m = "on_player_state_change" ->
           <<"acq", "acq", "call", "rel", "rel",
             "acq", "acq", "call", "rel", "call", "rel", "notify">>
      [] m = "on_position_change" -> <<"acq", "rel", "notify">>
      [] m = "play" -> <<"call", "acq", "call", "rel">>
      [] m = "get_position" -> <<"acq", "call", "rel", "call">>
      [] m = "tick" ->
           <<"call", "acq", "call", "rel", "acq", "notify", "rel">>

\* What a callback does when it is called: it returns, or it calls a
\* method of the engine first
CallbackPrograms ==
    {<<>>, LockProgram("get_position"), LockProgram("set_active_controller")}

\* A lock that its holder cannot take a second time (threading.Lock)
CanAcquire_plain(t) == mutex = None

\* threading.RLock: a thread gets the lock when no thread holds it or when
\* it holds the lock itself
CanAcquire(t) == mutex = None \/ mutex = t

\* Thread t enters method m
begin_call(t, m) ==
    /\ threads[t].todo = <<>>
    /\ (t = "worker") = (m = "tick")
    /\ threads' = [threads EXCEPT ![t].todo = LockProgram(m)]
    /\ UNCHANGED <<controllers, active, subscribed, inflight, lastPos,
                   lastTime, songDur, now, autoProgress, last, isPlaying,
                   observed, suspended, mutex>>

\* Thread t does the next thing it has to do; cb: what the callback does
\* that _notify_listeners calls
lock_step(t, cb) ==
    LET me == threads[t] IN
    /\ me.todo # <<>>
    /\ \/ /\ Head(me.todo) = "acq"
          /\ CanAcquire(t)
          /\ mutex' = t
          /\ threads' = [threads EXCEPT ![t].todo = Tail(@),
                                        ![t].held = @ + 1]
       \/ /\ Head(me.todo) = "rel"
          /\ mutex' = IF me.held = 1 THEN None ELSE mutex
          /\ threads' = [threads EXCEPT ![t].todo = Tail(@),
                                        ![t].held = @ - 1]
       \/ /\ Head(me.todo) = "call"
          /\ threads' = [threads EXCEPT ![t].todo = Tail(@)]
          /\ UNCHANGED mutex
       \/ /\ Head(me.todo) = "notify"
          /\ threads' = [threads EXCEPT ![t].todo = cb \o Tail(@)]
          /\ UNCHANGED mutex
    /\ UNCHANGED <<controllers, active, subscribed, inflight, lastPos,
                   lastTime, songDur, now, autoProgress, last, isPlaying,
                   observed, suspended>>

\* _start_auto_progress_thread(): a worker is started unless
\* self._auto_progress_thread holds one
StartThread ==
    IF thread = 0
    THEN /\ running' = TRUE
         /\ workers' = Append(workers, NewWorker)
         /\ thread' = Len(workers) + 1
    ELSE UNCHANGED <<running, thread, workers>>

\* set_auto_progress(interval): going from 0 to a positive interval makes
\* sure the thread is started
set_auto_progress(interval) ==
    /\ thread # 0 \/ Len(workers) < MaxWorkers
    /\ autoProgress' = IF interval > 0 THEN interval ELSE 0
    /\ last' = [NoCall EXCEPT !.op = "set_auto_progress", !.num = interval,
                              !.preActive = active]
    /\ IF autoProgress = 0 /\ interval > 0
       THEN StartThread
       ELSE UNCHANGED <<running, thread, workers>>
    /\ UNCHANGED <<controllers, active, subscribed, inflight, lastPos,
                   lastTime, songDur, now>>

\* while self._auto_progress_running, run being what the worker reads
LoopGoesOn(run) == run

\* Worker w tests the condition of its loop: it goes into the sleep of the
\* next iteration, or returns
worker_loop(w) ==
    /\ workers[w].at = "head"
    /\ workers' = [workers EXCEPT
                      ![w].at = IF LoopGoesOn(running) THEN "tick" ELSE "dead"]
    /\ UNCHANGED <<controllers, active, subscribed, inflight, lastPos,
                   lastTime, songDur, now, autoProgress, last, threads,
                   running, thread>>

\* Worker w wakes up and does the rest of its iteration
worker_iteration(w, st, pos) ==
    /\ workers[w].at = "tick"
    /\ LET r == AutoProgressIteration(Eng, workers[w].playing, st, pos) IN
       /\ Commit(r.e, [NoCall EXCEPT !.op = "tick", !.worker = w,
                                     !.ctrl = ActiveController(Eng),
                                     !.report = r.told])
       /\ workers' = [workers EXCEPT ![w].at = "head",
                                     ![w].playing = r.playing]
    /\ UNCHANGED <<subscribed, inflight, now, autoProgress, threads, running,
                   thread>>

\* _stop_auto_progress_thread() clears the flag and, if there is a thread,
\* goes into join(timeout=1.0)
stop_begin ==
    /\ threads["caller"].at = "idle"
    /\ running' = FALSE
    /\ workers' = [w \in DOMAIN workers |->
                     [workers[w] EXCEPT !.stopped = workers[w].at # "dead"]]
    /\ threads' = IF thread # 0 THEN Goto("caller", "join") ELSE threads
    /\ last' = [NoCall EXCEPT !.op = "stop_auto_progress_thread"]
    /\ UNCHANGED <<controllers, active, subscribed, inflight, lastPos,
                   lastTime, songDur, now, autoProgress, thread>>

\* join returns, because the worker has returned or because the second is
\* over with the worker inside an iteration (a worker that is about to
\* test the condition of its loop does so within that second), and
\* _stop_auto_progress_thread forgets the thread; the result recorded is
\* whether the worker has returned
stop_end ==
    /\ threads["caller"].at = "join"
    /\ workers[thread].at \in {"dead", "tick"}
    /\ thread' = 0
    /\ threads' = Goto("caller", "idle")
    /\ last' = [NoCall EXCEPT !.op = "stop_returned",
                              !.result = (workers[thread].at = "dead")]
    /\ UNCHANGED <<controllers, active, subscribed, inflight, lastPos,
                   lastTime, songDur, now, autoProgress, running, workers>>

\* The wall clock moves on
AdvanceTime ==
    /\ now < MaxTime
    /\ now' = now + 1
    /\ UNCHANGED <<controllers, active, subscribed, inflight, lastPos,
                   lastTime, songDur, autoProgress, last>>

\* ------------------------------------------------------------------------
\* Specifications
\* ------------------------------------------------------------------------
\* ------------------------------------------------------------------------
\* The loudness plugin (src/ac3/addons/audiocontroller/volumenorm.py).
\* Levels and gains are whole dB, a peak is in tenths.
\* ------------------------------------------------------------------------

\* A metadata key that is missing or whose value float() rejects
NoValue == 999

\* The reference level of ReplayGain, -18 LUFS
ReplayGainReference == 18

\* What the genre fallback returns for classical and for rock or metal
ClassicalBoost == 5
RockCut == 3

\* self._config["target_level"] as constructed
DefaultTargetLevel == 14

\* int(a / b) of Python: the quotient truncated towards zero
Trunc(a, b) == IF a >= 0 THEN a \div b ELSE -((-a) \div b)

\* max(-max_adjustment, min(max_adjustment, adjustment))
ClampAdjustment(limit, x) ==
    LET m == IF limit < x THEN limit ELSE x IN
    IF -limit > m THEN -limit ELSE m

\* int(level_diff * 2.5)
Percent(level_diff) == Trunc(5 * level_diff, 2)

\* _calculate_volume_adjustment(song): ReplayGain, else LUFS, else a peak
\* above 1.0, else the genre
CalculateVolumeAdjustment(song, cfg) ==
    IF song.gain # NoValue
    THEN ClampAdjustment(cfg.max,
            Percent(cfg.target - (song.gain - ReplayGainReference)))
    ELSE IF song.lufs # NoValue
    THEN ClampAdjustment(cfg.max, Percent(cfg.target - song.lufs))
    ELSE IF song.peak # NoValue /\ song.peak > 10
    THEN ClampAdjustment(cfg.max, -Trunc(5 * 20 * song.peak, 2 * 10))
    ELSE IF song.genre = "classical" THEN ClassicalBoost
    ELSE IF song.genre \in {"metal", "rock"} THEN -RockCut
    ELSE 0

\* max(0, min(100, current_volume + adjustment))
NewVolume(cur, adjustment) ==
    LET v == cur + adjustment IN
    IF v > VolumeMax THEN VolumeMax ELSE IF v < VolumeMin THEN VolumeMin ELSE v

\* VolumeNormalizationPlugin._on_song_change(song) under configuration cfg,
\* song.gain being NoFloat for no song.  cur: what get_volume() of the
\* active controller answers; out: how its set_volume ends
volumenorm_on_song_change(song, cfg, cur, out) ==
    LET adjustment == IF song.gain = NoFloat \/ ~cfg.enabled THEN 0
                      ELSE CalculateVolumeAdjustment(song, cfg)
        current == IF ActiveController(Eng) = None THEN NoFloat ELSE cur
        new == NewVolume(current, adjustment)
        sets == adjustment # 0 /\ current # NoFloat /\ new # current
        r == IF sets
             THEN Forward(Eng, "set_volume", new, out, NoEvent,
                          [pos |-> NoFloat, dur |-> NoFloat, playing |-> FALSE,
                           pause |-> NoPause, nowPlaying |-> {}])
             ELSE [e |-> Eng, result |-> FALSE, raised |-> FALSE] IN
    /\ Commit(r.e, [NoCall EXCEPT !.op = "volumenorm_on_song_change",
                                  !.ctrl = ActiveController(Eng),
                                  !.raised = r.raised,
                                  !.outcome = out,
                                  !.delta = adjustment,
                                  !.limit = cfg.max,
                                  !.volumes = IF sets THEN {new} ELSE {}])
    /\ UNCHANGED <<subscribed, inflight, now, autoProgress>>

\* The longest row of events a backend raises in one go
MaxBurst == 2

\* What a backend raises besides its state: a song (its duration), a volume
\* or a position
BackendEvents ==
    [kind : {"song_change"}, num : DurOpt]
       \cup [kind : {"volume_change"}, num : {VolumeMax}]
       \cup [kind : {"position_change"}, num : 0..MaxPos]

\* The handler of the engine that a backend calls for event ev
HandleEvent(e, ev) ==
    CASE ev.kind = "song_change" -> OnSongChange(e, ev.num)
      [] ev.kind = "volume_change" -> OnVolumeChange(e, ev.num)
      [] ev.kind = "position_change" -> OnPositionChange(e, ev.num)

RECURSIVE HandleAll_lastFirst(_, _)
RECURSIVE HandleAll(_, _)
\* An engine that takes up the event raised last before the others
HandleAll_lastFirst(e, evs) ==
    IF evs = <<>> THEN e
    ELSE HandleEvent(HandleAll_lastFirst(e, Tail(evs)), Head(evs))

\* The backend raises evs one after the other in one thread, and each
\* _notify_* returns when the engine's handler has returned
HandleAll(e, evs) ==
    IF evs = <<>> THEN e
    ELSE HandleAll(HandleEvent(e, Head(evs)), Tail(evs))

\* MPDPlayerController._process_mpd_changes of backend o that found the
\* changes evs, and the engine's handlers for them
process_changes(o, evs) ==
    /\ o \in subscribed
    /\ Commit(HandleAll(Eng, evs),
              [NoCall EXCEPT !.op = "process_changes", !.ctrl = o,
                             !.burst = evs])
    /\ UNCHANGED <<subscribed, inflight, now, autoProgress>>


\* The state the active controller reported in the call recorded in l, act
\* being the active id after the call; None if it reported none
Reported(l, act) ==
    CASE l.op = "on_player_state_change" /\ l.arg = act -> l.outcome
      [] l.op \in Commands \cup {"tick"} -> l.report
      [] OTHER -> None

\* The history variables after a call
Track ==
    LET r == Reported(last', active') IN
    /\ observed' = IF r # None THEN r
                   ELSE IF last'.op = "play" /\ last'.result THEN PLAYING
                   ELSE IF active' # active THEN None
                   ELSE observed
    /\ suspended' =
          CASE last'.op \in {"pause", "stop"} /\ last'.result -> TRUE
            [] last'.op \in {"play", "seek"} /\ last'.result -> FALSE
            [] r = PLAYING -> FALSE
            [] active' # active -> FALSE
            [] OTHER -> suspended

\* The state outside the registry and the extrapolation
addons == <<listeners, discovered, plugins, created, running, thread, workers>>

\* A call of a thread other than the worker, where the worker runs
Tracked(A) ==
    A /\ UNCHANGED <<isPlaying, mutex, threads>> /\ UNCHANGED addons /\ Track

\* A step that leaves the worker and the history alone: a step that is no
\* call on the engine, or any step where the worker does not run
Quiet(A) == A /\ UNCHANGED <<isPlaying, observed, suspended, mutex, threads>>

\* Such a step that leaves the listeners and the plugins alone as well
Idle(A) == Quiet(A) /\ UNCHANGED addons

\* A call of a client that is about the listeners only
Client(A) ==
    Quiet(A) /\ UNCHANGED <<discovered, plugins, created, running, thread, workers>>

\* A call on the plugin manager
Manager(A) == Quiet(A) /\ UNCHANGED <<running, thread, workers>>

\* A step of a worker or of a thread that starts and stops workers
Lifecycle(A) ==
    A /\ UNCHANGED <<isPlaying, observed, suspended, mutex, listeners,
                     discovered, plugins, created>>

\* A step of set_active_controller or of the worker
Engine(A) == A /\ UNCHANGED addons

\* A call of a third thread that takes self._lock for as long as it runs
Locked(A) == mutex = None /\ Idle(A)

Register == \E o \in Objs : register_controller(o)

\* Two controllers with different ids are enough for a command to have an
\* active controller and another one
RegisterTwo == \E o \in {"o1", "o2"} : register_controller(o)

Unregister == \E pid \in Ids : unregister_controller(pid)

SetActive ==
    \E pid \in Ids, q \in [pos : PosOpt, dur : DurOpt, playing : {FALSE},
                           pause : {NoPause}, nowPlaying : {{}}] :
        set_active_controller(pid, q)

AutoSelectActive ==
    \E playing \in SUBSET Values(controllers),
       connected \in SUBSET Values(controllers) :
        auto_select_active_controller(playing, connected)

\* The answers a command can depend on: the position only when play
\* succeeds or a PLAYING report is handled, the player state only when a
\* PLAYING report is handled, the song never
CommandAnswers(cmd, out, emit) ==
    [pos : IF emit = PLAYING \/ (cmd = "play" /\ out = "true")
           THEN PosOpt ELSE {NoFloat},
     dur : {NoFloat},
     playing : IF emit = PLAYING THEN BOOLEAN ELSE {FALSE},
     pause : {NoPause},
     nowPlaying : {{}}]

\* The states a backend may report to its listeners from inside a
\* command: play, pause, stop, next and previous of MPDPlayerController
\* and NullPlayerController report the player state, the other commands
\* do not
Reports(cmd) ==
    IF cmd \in {"play", "pause", "stop", "next", "previous"}
    THEN {NoEvent} \cup PlayerStates
    ELSE {NoEvent}

Command ==
    \E cmd \in Commands, out \in Outcomes :
        \E emit \in Reports(cmd), num \in Args(cmd) :
            \E q \in CommandAnswers(cmd, out, emit) :
                command(cmd, num, out, emit, q)

SetAutoProgress == \E interval \in -1..MaxInterval : set_auto_progress(interval)

Notify == \E o \in Objs, st \in PlayerStates : NotifyPlayerStateChange(o, st)

\* The answers the handling of a state-changed event can depend on
EventAnswers(st) ==
    [pos : IF st = PLAYING THEN PosOpt ELSE {NoFloat},
     dur : {NoFloat},
     playing : IF st = PLAYING THEN BOOLEAN ELSE {FALSE},
     pause : {NoPause},
     nowPlaying : {{}}]

Deliver == \E n \in inflight : \E q \in EventAnswers(n.state) :
                DeliverPlayerStateChange(n, q)

\* Three controllers with different ids: one that starts to play and two
\* others
RegisterThree == \E o \in {"o1", "o2", "o3"} : register_controller(o)

\* pause() outcomes that differ from True on the controllers in S only
PauseAnswers(S) == {f \in [Objs -> Outcomes] : \A o \in Objs \ S : f[o] = "true"}

\* The answers around the handling of a state-changed event of controller
\* o: how the pause() of every other registered controller ends and which
\* of them are playing when o reports PLAYING
PromotionAnswers(o, st) ==
    [pos : {NoFloat},
     dur : {NoFloat},
     playing : {FALSE},
     pause : IF st = PLAYING THEN PauseAnswers(Values(controllers) \ {o})
             ELSE {NoPause},
     nowPlaying : IF st = PLAYING THEN SUBSET (Values(controllers) \ {o})
                  ELSE {{}}]

DeliverPromotion == \E n \in inflight : \E q \in PromotionAnswers(n.ctrl, n.state) :
                        DeliverPlayerStateChange(n, q)

\* pause(), during which the backend may report PAUSED to its listeners
Pause ==
    \E out \in Outcomes, emit \in {NoEvent, PAUSED} :
        \E q \in CommandAnswers("pause", out, emit) :
            command("pause", NoFloat, out, emit, q)

\* One controller is enough for the worker to follow
RegisterOne == register_controller("o1")

\* play(), pause(), stop() and seek(p).  The backend may report the state
\* the command leaves it in from inside the command; seek reports none.
TransportReports(cmd) ==
    CASE cmd = "play" -> {NoEvent, PLAYING}
      [] cmd = "pause" -> {NoEvent, PAUSED}
      [] cmd = "stop" -> {NoEvent, STOPPED}
      [] OTHER -> {NoEvent}

Transport ==
    \E cmd \in {"play", "pause", "stop", "seek"}, out \in {"true", "false"} :
        \E emit \in TransportReports(cmd),
           num \in IF cmd = "seek" THEN 0..MaxSeek ELSE {NoFloat} :
            \E q \in CommandAnswers(cmd, out, emit) :
                command(cmd, num, out, emit, q)

SongChange == \E o \in Objs, dur \in DurOpt : on_song_change(o, dur)

PositionChange == \E o \in Objs, pos \in PosOpt : on_position_change(o, pos)

Tick == \E st \in PlayerStates, pos \in PosOpt : auto_progress_tick(st, pos)

\* The registry operations alone
NextRegistry ==
    \/ Idle(Register)
    \/ Idle(Unregister)
    \/ Idle(SetActive)
    \/ Idle(AutoSelectActive)

SpecRegistry == Init /\ [][NextRegistry]_vars

\* Commands on a registry that changes
NextCommands ==
    \/ Idle(RegisterTwo)
    \/ Idle(Unregister)
    \/ Idle(SetActive)
    \/ Idle(Command)

SpecCommands == Init /\ [][NextCommands]_vars

\* Backend state-changed events next to registry changes
NextEvents ==
    \/ Idle(Register)
    \/ Idle(Unregister)
    \/ Idle(Notify)
    \/ Idle(Deliver)

SpecEvents == Init /\ [][NextEvents]_vars

\* State-changed events among three controllers, with the outcome of each
\* pause() and the state of each controller drawn
NextPromotion ==
    \/ Idle(RegisterThree)
    \/ Idle(Unregister)
    \/ Idle(Notify)
    \/ Idle(DeliverPromotion)

SpecPromotion == Init /\ [][NextPromotion]_vars

\* Two controllers that register, report their state and are paused
NextScenario ==
    \/ Idle(RegisterTwo)
    \/ Idle(Unregister)
    \/ Idle(Notify)
    \/ Idle(Deliver)
    \/ Idle(Pause)

SpecScenario == Init /\ [][NextScenario]_vars

SetActiveBegin == \E pid \in Ids : set_active_begin(pid)

SetActiveGotPosition == \E pos \in PosOpt : set_active_got_position(pos)

SetActiveGotSong == \E dur \in DurOpt : set_active_got_song(dur)

WorkerTold == \E st \in PlayerStates : worker_told(st)

WorkerGotPosition == \E pos \in PosOpt : worker_got_position(pos)

\* A caller of set_active_controller, the worker and a third thread that
\* registers and unregisters controllers, around self._lock
NextMutex ==
    \/ Locked(RegisterTwo)
    \/ Locked(Unregister)
    \/ Locked(SetAutoProgress)
    \/ Engine(SetActiveBegin)
    \/ Engine(SetActiveGotPosition)
    \/ Engine(SetActiveGotSong)
    \/ Engine(worker_begin)
    \/ Engine(WorkerTold)
    \/ Engine(worker_init)
    \/ Engine(WorkerGotPosition)
    \/ Engine(worker_extrapolate)

SpecMutex == Init /\ [][NextMutex]_vars

\* The worker next to the commands and events that move the position
NextExtrapolation ==
    \/ Tracked(RegisterOne)
    \/ Tracked(SetAutoProgress)
    \/ Tracked(Transport)
    \/ Tracked(SongChange)
    \/ Tracked(PositionChange)
    \/ Idle(AdvanceTime)
    \/ Tick /\ Track /\ UNCHANGED <<mutex, threads>> /\ UNCHANGED addons

SpecExtrapolation == Init /\ [][NextExtrapolation]_vars

\* Clients that add and remove listeners while a backend reports songs and
\* positions
NextListeners ==
    \/ Idle(RegisterOne)
    \/ Client(\E kind \in {"song_change", "position_change"},
                 cb \in ClientCallbacks : add_listener(kind, cb))
    \/ Client(\E kind \in {"song_change", "position_change"},
                 cb \in ClientCallbacks : remove_listener(kind, cb))
    \/ Idle(SongChange)
    \/ Idle(PositionChange)

SpecListeners == Init /\ [][NextListeners]_vars

\* The rows of events a backend raises in one go
Bursts == UNION {[1..n -> BackendEvents] : n \in 1..MaxBurst}

\* A backend that raises several events in a row, and clients that listen
NextOrder ==
    \/ Idle(RegisterOne)
    \/ Idle(Unregister)
    \/ Client(\E kind \in {"song_change", "volume_change", "position_change"} :
                 add_listener(kind, "listener1"))
    \/ Idle(\E o \in subscribed, evs \in Bursts : process_changes(o, evs))

SpecOrder == Init /\ [][NextOrder]_vars

\* The ids a caller passes: names of plugins, names of classes, and a name
\* that neither is
PluginIds == PluginClasses \cup {PluginName(cls) : cls \in PluginClasses}
                 \cup {"NoSuchPlugin"}

\* The plugin manager and a backend that reports songs
NextPlugins ==
    \/ Manager(discover_plugins)
    \/ Manager(\E cls \in PluginClasses : load_plugin(cls))
    \/ Manager(\E name \in PluginIds : load_plugin_by_name(name))
    \/ Manager(load_all_plugins)
    \/ Manager(\E id \in PluginIds, out \in Hooks : enable_plugin(id, out))
    \/ Manager(\E id \in PluginIds, out \in Hooks : disable_plugin(id, out))

SpecPlugins == Init /\ [][NextPlugins]_vars

\* The names main.py passes to enable_plugin
RepoPlugins == {"AutoPause", "VolumeNormalization"}

\* AudioController.load_plugins(): discover_plugins and load_all_plugins
load_plugins ==
    /\ created + Cardinality(PluginClasses) <= MaxInstances
    /\ CommitMgr(LoadAll([Mgr EXCEPT !.discovered = PluginClasses],
                         PluginClasses),
                 [NoCall EXCEPT !.op = "load_plugins"])

\* The plugins of the repository, enabled and disabled as main.py does,
\* while a backend reports states and songs
NextPluginEvents ==
    \/ Idle(RegisterOne)
    \/ Manager(load_plugins)
    \/ Manager(\E id \in RepoPlugins : enable_plugin(id, "true"))
    \/ Manager(\E id \in RepoPlugins : disable_plugin(id, "true"))
    \/ Idle(Notify)
    \/ Idle(Deliver)
    \/ Idle(SongChange)

SpecPluginEvents == Init /\ [][NextPluginEvents]_vars

\* The songs the loudness plugin is given, and None
Songs ==
    [gain : {NoValue, -6, 0, 7}, lufs : {NoValue, -23, -9},
     peak : {NoValue, 8, 12}, genre : {"classical", "rock", "jazz"}]
       \cup [gain : {NoFloat}, lufs : {NoValue}, peak : {NoValue},
             genre : {"jazz"}]

\* What set_config accepts: any int as max_adjustment
Configs == [target : {-DefaultTargetLevel}, max : {0, 2, 10}, enabled : BOOLEAN]

\* The handler of the loudness plugin called with songs, with and without
\* an active controller
NextLoudness ==
    \/ Idle(RegisterOne)
    \/ Idle(Unregister)
    \/ Idle(\E song \in Songs, cfg \in Configs,
               cur \in {0, 3, VolumeMax - 2, VolumeMax}, out \in {"true", "false"} :
               volumenorm_on_song_change(song, cfg, cur, out))

SpecLoudness == Init /\ [][NextLoudness]_vars

\* The workers, a thread that stops them and sets the interval, and the
\* clock
NextShutdown ==
    \/ Idle(RegisterOne)
    \/ Lifecycle(SetAutoProgress) /\ UNCHANGED threads
    \/ Idle(AdvanceTime)
    \/ Lifecycle(\E w \in DOMAIN workers : worker_loop(w))
    \/ Lifecycle(\E w \in DOMAIN workers, st \in PlayerStates, pos \in PosOpt :
                    worker_iteration(w, st, pos))
    \/ Lifecycle(stop_begin)
    \/ Lifecycle(stop_end)

SpecShutdown == Init /\ [][NextShutdown]_vars

\* Two controllers that come and go and raise events of every kind, one
\* of them active
NextBroadcast ==
    \/ Idle(RegisterTwo)
    \/ Idle(Unregister)
    \/ Idle(Notify)
    \/ Idle(Deliver)
    \/ Idle(\E o \in Objs, ev \in BackendEvents : process_changes(o, <<ev>>))

SpecBroadcast == Init /\ [][NextBroadcast]_vars

\* The orders in which a set S can yield its elements
Orders(S) ==
    {f \in [1..Cardinality(S) -> S] : \A i, j \in DOMAIN f : f[i] = f[j] => i = j}

\* Clients whose callbacks add and remove listeners while the engine
\* dispatches
NextReentrant ==
    \/ Client(\E cb \in {"listener1", "listener2", OneShot} :
                 add_listener("position_change", cb))
    \/ Client(add_listener("song_change", "listener1"))
    \/ Client(\E cb \in {"listener1", "listener2", OneShot} :
                 remove_listener("position_change", cb))
    \/ Client(\E kind \in {"song_change", "position_change"},
                 num \in 0..MaxPos, order \in Orders(listeners) :
                 notify_listeners(kind, num, order))

SpecReentrant == Init /\ [][NextReentrant]_vars

\* A thread of a caller or of a backend and the worker, each inside a
\* method of the engine, around self._lock
NextLock ==
    \/ Engine(\E t \in Threads, m \in LockMethods : begin_call(t, m))
    \/ Engine(\E t \in Threads, cb \in CallbackPrograms : lock_step(t, cb))

SpecLock == Init /\ [][NextLock]_vars

\* The registry, the commands, the events and the worker together
Next ==
    \/ Tracked(Register)
    \/ Tracked(Unregister)
    \/ Tracked(SetActive)
    \/ Tracked(AutoSelectActive)
    \/ Tracked(Command)
    \/ Tracked(SetAutoProgress)
    \/ Tracked(SongChange)
    \/ Tracked(PositionChange)
    \/ Tracked(Deliver)
    \/ Idle(Notify)
    \/ Idle(AdvanceTime)
    \/ Tick /\ Track /\ UNCHANGED <<mutex, threads>> /\ UNCHANGED addons

Spec == Init /\ [][Next]_vars

\* ------------------------------------------------------------------------
\* Properties
\* ------------------------------------------------------------------------

\* The indices of the registry entries whose controller is in S
IndicesIn(d, S) == {i \in DOMAIN d : d[i].ctrl \in S}

\* C1: after any sequence of register_controller, unregister_controller,
\* set_active_controller and auto_select_active_controller calls at most
\* one registry entry is the active one, and the active id is none or an
\* id that is in the registry.
C1_ActiveIsRegisteredOrNone ==
    /\ Cardinality({i \in DOMAIN controllers : controllers[i].id = active}) <= 1
    /\ active = None \/ active \in Keys(controllers)

\* C1 witness: the active controller was unregistered while others remained
C1_Witness ==
    /\ last.op = "unregister"
    /\ last.result
    /\ last.preActive = last.arg
    /\ active \in Keys(controllers)

\* C2: a PLAYING state-changed event of controller X that is handled after
\* unregister_controller(X) does not leave the active id equal to the
\* unregistered X.
C2_EventNeverActivatesUnregistered ==
    (last.op = "on_player_state_change" /\ last.arg \notin Keys(controllers))
        => active # last.arg

C4_RegisterStoresSubscribesPromotes ==
    [][(last' # last /\ last'.op = "register" /\ last'.result)
        => /\ controllers' = Append(controllers, [id |-> last'.arg, ctrl |-> last'.ctrl])
           /\ last'.ctrl \in subscribed'
           /\ active' = (IF active = None THEN last'.arg ELSE active)]_vars

\* C4 witness: a controller was registered while another one was active
C4_Witness ==
    /\ last.op = "register"
    /\ last.result
    /\ last.preActive # None
    /\ last.preActive # last.arg
    /\ active = last.preActive
    /\ last.ctrl \in subscribed

C6_FailoverToEarliestRemaining ==
    [][(last' # last /\ last'.op = "unregister" /\ last'.result)
        => /\ controllers' = SelectSeq(controllers, LAMBDA r : r.id # last'.arg)
           /\ active' = (IF active # last'.arg THEN active
                         ELSE IF controllers' = <<>> THEN None
                         ELSE controllers'[1].id)]_vars

\* C6 witness: the active controller was unregistered, two others remain
\* and the earlier registered one is active
C6_Witness ==
    /\ last.op = "unregister"
    /\ last.result
    /\ last.preActive = last.arg
    /\ Len(controllers) = 2
    /\ active = controllers[1].id

\* C7: a public command issued while no controller is active returns
\* failure, calls no backend, and leaves the active id and the
\* extrapolation state unchanged.
C7_NoActiveControllerIsFailure ==
    [][(last' # last /\ last'.op \in Commands /\ active = None)
        => /\ ~last'.result
           /\ ~last'.raised
           /\ last'.calls = {}
           /\ UNCHANGED <<active, lastPos, lastTime, songDur>>]_vars

\* C7 witness: a command was issued with no active controller while the
\* extrapolation state holds a position and a timestamp
C7_Witness ==
    /\ last.op \in Commands
    /\ last.preActive = None
    /\ ~last.result
    /\ lastPos # NoFloat
    /\ lastTime # NoFloat

\* C8: a public command issued while a controller is active is forwarded,
\* with its argument, to the controller that is active at the time of the
\* call, no other controller is called, and the command returns what that
\* controller returned.
C8_ForwardedToActiveOnly ==
    [][(last' # last /\ last'.op \in Commands /\ active # None)
        => LET c == DictGet(controllers, active) IN
           /\ Call(c, last'.op, last'.num) \in last'.calls
           /\ \A k \in last'.calls : k.ctrl = c
           /\ last'.outcome = "true" => last'.result
           /\ last'.outcome = "false" => ~last'.result]_vars

\* C8 witness: pause() succeeded with two controllers registered, the one
\* registered second being active and the only one called
C8_Witness ==
    /\ last.op = "pause"
    /\ last.result
    /\ Len(controllers) = 2
    /\ last.preActive = controllers[2].id
    /\ last.calls = {Call(controllers[2].ctrl, "pause", NoFloat)}

\* C9: when the active controller raises inside a forwarded command the
\* command returns failure and no exception leaves it.
C9_BackendExceptionIsFailure ==
    (last.op \in Commands /\ last.calls # {} /\ last.outcome = "raise")
        => (~last.raised /\ ~last.result)

\* C10: auto_select_active_controller makes active the first controller in
\* registration order that reports playing; if none does, the first that
\* reports connected; if none does either it fails and leaves the active
\* id unchanged.
C10_AutoSelectPlayingFirst ==
    last.op = "auto_select" =>
        LET P == IndicesIn(controllers, last.playing)
            K == IndicesIn(controllers, last.connected)
        IN /\ P # {} =>
                /\ last.result
                /\ \E i \in P : active = controllers[i].id /\ \A j \in P : i <= j
           /\ (P = {} /\ K # {}) =>
                /\ last.result
                /\ \E i \in K : active = controllers[i].id /\ \A j \in K : i <= j
           /\ (P = {} /\ K = {}) => (~last.result /\ active = last.preActive)

\* C10 witness: a connected controller is registered before a playing one
\* and the playing one was selected
C10_Witness ==
    /\ last.op = "auto_select"
    /\ \E i, j \in DOMAIN controllers :
          /\ i < j
          /\ controllers[i].ctrl \in last.connected \ last.playing
          /\ controllers[j].ctrl \in last.playing
          /\ active = controllers[j].id
          /\ last.preActive = controllers[i].id

\* The last call handled a PLAYING report of a registered controller that
\* was not the active one
PromotionHandled ==
    /\ last.op = "on_player_state_change"
    /\ last.outcome = PLAYING
    /\ last.preActive # last.arg
    /\ DictGet(controllers, last.arg) = last.ctrl

\* The controllers that were registered next to the one that was promoted
OtherControllers == Values(controllers) \ {last.ctrl}

\* The backends a call called pause() on
Paused(calls) == {c.ctrl : c \in {x \in calls : x.method = "pause"}}

\* C11: when a registered controller that is not the active one reports
\* PLAYING, the handler hands the report to the listeners of the engine,
\* and whatever it hands to them it hands over with that controller
\* already the active one.
C11_PromotedBeforeFanOut ==
    PromotionHandled =>
        /\ active = last.arg
        /\ \E i \in DOMAIN last.events :
               /\ last.events[i].kind = "player_state_change"
               /\ last.events[i].src = last.arg
               /\ last.events[i].state = PLAYING
        /\ \A i \in DOMAIN last.events : last.events[i].active = last.arg

C11_Witness ==
    /\ PromotionHandled
    /\ last.preActive \in Keys(controllers)
    /\ Len(last.events) = 1
    /\ last.events[1].active = last.arg

\* C12: when a controller is promoted because it reported PLAYING, pause()
\* is called on exactly those other registered controllers that are
\* playing at that time.
C12_PausesOnlyPlayingOthers ==
    PromotionHandled => Paused(last.calls) = OtherControllers \cap last.playing

\* C13: when a controller is promoted because it reported PLAYING, pause()
\* is called on every other registered controller, however the pause() of
\* any of them ends, and the promoted controller is the active one when
\* the handler returns.
C13_AutoPauseIsBestEffort ==
    PromotionHandled =>
        /\ active = last.arg
        /\ OtherControllers \subseteq Paused(last.calls)

C13_Witness ==
    /\ PromotionHandled
    /\ active = last.arg
    /\ \E i, j \in DOMAIN controllers :
           /\ i < j
           /\ controllers[i].ctrl # last.ctrl
           /\ controllers[j].ctrl # last.ctrl
           /\ last.pause[controllers[i].ctrl] = "raise"
           /\ last.pause[controllers[j].ctrl] = "false"
           /\ {controllers[i].ctrl, controllers[j].ctrl} \subseteq Paused(last.calls)

\* C14 as stated: after controller A and then controller B (already
\* playing) were registered, B is the active controller.
\* register_controller does not ask a controller for its state, so the
\* state B is in is no input of the call: the formula says of every B what
\* the claim says of a B that is playing.
C14_SecondRegisteredIsActive ==
    (/\ last.op = "register"
     /\ last.result
     /\ Len(controllers) = 2
     /\ controllers[2].id = last.arg) => active = last.arg

\* C14: after controller A and then controller B were registered, A stays
\* the active controller; once a PLAYING report of the registered B has
\* been handled, B is the active controller, and a pause() that follows is
\* forwarded to B and to no other controller.
C14_PlayingReportMakesActive ==
    [][/\ (last' # last /\ last'.op = "register" /\ active # None)
           => active' = active
       /\ (/\ last.op = "on_player_state_change"
           /\ last.outcome = PLAYING
           /\ DictGet(controllers, last.arg) = last.ctrl)
           => /\ active = last.arg
              /\ (last' # last /\ last'.op = "pause")
                    => /\ last'.ctrl = last.ctrl
                       /\ Call(last.ctrl, "pause", NoFloat) \in last'.calls
                       /\ \A c \in last'.calls : c.ctrl = last.ctrl]_vars

C14_Witness ==
    /\ Len(controllers) = 2
    /\ last.op = "pause"
    /\ last.preActive = controllers[2].id
    /\ last.ctrl = controllers[2].ctrl
    /\ last.calls = {Call(controllers[2].ctrl, "pause", NoFloat)}

\* C15 as stated: the volume that reaches the set_volume of the active
\* backend lies in 0..100.
C15_VolumeInRangeAtBackend ==
    \A c \in last.calls :
        c.method = "set_volume" => c.arg \in VolumeMin..VolumeMax

\* C15: set_volume hands the requested volume unchanged to the set_volume
\* of the active backend, and the volume the backend sets and reports to
\* the listeners is the requested one brought into 0..100.
C15_VolumeForwardedAsGivenClampedByBackend ==
    (last.op = "set_volume" /\ last.ctrl # None) =>
        /\ last.calls = {Call(last.ctrl, "set_volume", last.num)}
        /\ \A i \in DOMAIN last.events :
               last.events[i].kind = "volume_change" =>
                   /\ last.events[i].num \in VolumeMin..VolumeMax
                   /\ last.num > VolumeMax => last.events[i].num = VolumeMax
                   /\ last.num < VolumeMin => last.events[i].num = VolumeMin
                   /\ last.num \in VolumeMin..VolumeMax
                         => last.events[i].num = last.num

C15_Witness ==
    /\ last.op = "set_volume"
    /\ last.result
    /\ last.num = VolumeMax + 50
    /\ Call(last.ctrl, "set_volume", VolumeMax + 50) \in last.calls
    /\ \E i \in DOMAIN last.events :
           /\ last.events[i].kind = "volume_change"
           /\ last.events[i].num = VolumeMax

\* The last call was an iteration of the worker that moved the stored
\* position and handed it to the listeners
TickEmitted == last.op = "tick" /\ last.events # <<>>

\* C16: whenever the duration of the current song is known, the stored
\* position is not beyond it.
C16_PositionWithinDuration ==
    (songDur # NoFloat /\ lastPos # NoFloat) => lastPos <= songDur

\* C17: while the position is being extrapolated (its timestamp is set: a
\* play or seek came and no pause or stop since), the position that an
\* iteration of the worker stores and hands to the listeners is not below
\* the position stored before and not beyond the known duration of the
\* song.
C17_PositionsNonDecreasing ==
    [][(/\ last' # last
        /\ last'.op = "tick"
        /\ last'.events # <<>>
        /\ lastPos # NoFloat /\ lastTime # NoFloat)
          => /\ lastPos' >= lastPos
             /\ songDur' # NoFloat => lastPos' <= songDur']_vars

\* C18: a pause() or stop() that succeeds clears the timestamp of the
\* stored position, and from then on no iteration of the worker hands an
\* extrapolated position to the listeners until a play() or seek()
\* succeeds or the active controller reports PLAYING.
C18_NoExtrapolationWhileSuspended ==
    /\ (last.op \in {"pause", "stop"} /\ last.result) => lastTime = NoFloat
    /\ TickEmitted => ~suspended

\* C19: an iteration of the worker moves the stored position and hands it
\* to the listeners only if the state the active controller reported last
\* is PLAYING.
C19_TickOnlyWhileObservedPlaying ==
    TickEmitted => observed = PLAYING

\* C20: in every reachable state the thread that holds the engine mutex is
\* not inside a method of a backend.
C20_NoBackendCallUnderMutex ==
    \A t \in Threads : mutex = t => threads[t].at \notin BackendCalls

\* What the call made last handed to the listeners
Dispatched == {last.events[i] : i \in DOMAIN last.events}

\* The pair given to add_listener or remove_listener in the call made last
LastPair == [kind |-> last.arg, cb |-> last.cb]

\* C21: adding a pair (event kind, callback) that is registered already
\* changes nothing, every event is handed exactly once to each callback
\* registered for its kind and to no other, and after one remove_listener
\* the pair is no longer registered
C21_DuplicateRegistrationIsNoOp ==
    [][/\ last'.op = "add_listener" /\ last'.had => listeners' = listeners
       /\ last'.op = "remove_listener" => LastPair' \notin listeners'
       /\ \A ev \in Dispatched' : \A cb \in Callbacks :
             ev.invoked[cb] =
                IF [kind |-> ev.kind, cb |-> cb] \in listeners' THEN 1 ELSE 0
      ]_vars

\* A pair was added twice and an event of its kind is dispatched
C21_Witness ==
    /\ last.op = "add_listener"
    /\ last.had
    /\ LastPair \in listeners

Received(cb) ==
    LET Got(ev) == ev.invoked[cb] > 0
        evs == SelectSeq(last.events, Got) IN
    [i \in DOMAIN evs |-> [kind |-> evs[i].kind, num |-> evs[i].num]]

\* The events the backend raised in the call made last that callback cb
\* is registered for, in the order the backend raised them
Awaited(cb) ==
    LET Wanted(ev) == [kind |-> ev.kind, cb |-> cb] \in listeners IN
    IF last.preActive = None THEN <<>> ELSE SelectSeq(last.burst, Wanted)

HookCalled == last'.op \in {"enable_plugin", "disable_plugin"} /\ last'.calls # {}

\* C24: enable_plugin of a plugin that is enabled and disable_plugin of a
\* loaded plugin that is not enabled return True, call no hook and change
\* neither the plugins nor the listeners
C24_EnableDisableIdempotent ==
    [][\A p \in DOMAIN plugins :
          \/ last'.op = "enable_plugin" /\ last'.arg = p /\ plugins[p].enabled
          \/ last'.op = "disable_plugin" /\ last'.arg = p /\ ~plugins[p].enabled
          => /\ last'.result
             /\ ~last'.raised
             /\ last'.calls = {}
             /\ plugins' = plugins
             /\ listeners' = listeners]_vars

\* disable_plugin of a loaded plugin that is not enabled has returned True
C24_Witness ==
    /\ last.op = "disable_plugin"
    /\ last.arg \in DOMAIN plugins
    /\ last.result
    /\ last.calls = {}

\* C25: _enabled of a plugin changes only in a call whose hook returned
\* True; a call whose hook returned False or raised returns False, raises
\* nothing and leaves _enabled as it was
C25_StateChangesOnlyThroughSuccessfulHook ==
    [][/\ HookCalled /\ last'.outcome # "true"
          => /\ ~last'.result
             /\ ~last'.raised
             /\ plugins'[last'.arg].enabled =
                   IF last'.arg \in DOMAIN plugins
                   THEN plugins[last'.arg].enabled ELSE FALSE
       /\ \A p \in DOMAIN plugins :
             plugins'[p].enabled # plugins[p].enabled
                => HookCalled /\ last'.outcome = "true" /\ last'.arg = p
      ]_vars

\* A disable hook has raised and the plugin is enabled as before
C25_Witness ==
    /\ last.op = "disable_plugin"
    /\ last.calls # {}
    /\ last.outcome = "raise"
    /\ ~last.result
    /\ plugins[last.arg].enabled

\* C26: an instance that is stored under a name stays there, and a load of
\* a name that is loaded returns that instance and leaves its _enabled
C26_OneInstancePerName ==
    [][\A name \in DOMAIN plugins :
          /\ name \in DOMAIN plugins'
          /\ plugins'[name].inst = plugins[name].inst
          /\ last'.op \in {"load_plugin", "load_plugin_by_name",
                           "load_all_plugins"}
                => plugins'[name] = plugins[name]
          /\ last'.op \in {"load_plugin", "load_plugin_by_name"}
                /\ last'.arg = name
                => last'.inst = plugins[name].inst]_vars

\* A load has constructed an instance and returned an older one, which is
\* enabled
C26_Witness ==
    /\ last.op = "load_plugin"
    /\ last.inst # 0
    /\ last.inst < created
    /\ plugins[last.arg].enabled

\* The plugin called name is loaded and enabled
Enabled(name) == name \in DOMAIN plugins /\ plugins[name].enabled

\* C27: the handler of AutoPause is called with every player_state_change
\* the engine dispatches while the plugin is enabled, the handler of
\* VolumeNormalization with every song_change while that plugin is enabled,
\* and neither is called while its plugin is not enabled
C27_EnabledPluginReceivesEvents ==
    \A ev \in Dispatched :
        /\ ev.kind = "player_state_change" =>
              ev.invoked[AutoPauseHandler] =
                 IF Enabled("AutoPause") THEN 1 ELSE 0
        /\ ev.kind = "song_change" =>
              ev.invoked[VolumeNormHandler] =
                 IF Enabled("VolumeNormalization") THEN 1 ELSE 0

\* C28: the adjustment the loudness plugin computes is within
\* -max_adjustment..max_adjustment, on the genre path as on the others, and
\* a volume it passes to set_volume is within 0..100
C28_AdjustmentWithinMaxAndVolumeInRange ==
    last.op = "volumenorm_on_song_change" =>
        /\ last.delta <= last.limit
        /\ -last.delta <= last.limit
        /\ last.volumes \subseteq VolumeMin..VolumeMax

\* C29: a worker for which a stop was requested begins no iteration when
\* it tests the condition of its loop, but returns, and a worker that has
\* returned makes no step
C29_StoppedWorkerStartsNoTick ==
    [][\A w \in DOMAIN workers :
          /\ workers[w].stopped /\ workers[w].at = "head"
                => workers'[w].at \in {"head", "dead"}
          /\ workers[w].at = "dead"
                => /\ workers'[w].at = "dead"
                   /\ last'.op = "tick" /\ last'.worker = w => last' = last
      ]_vars

\* C30: set_active_controller of an id that is not registered returns
\* False and leaves the active id and the extrapolation state as they
\* were; of a registered id it returns True and the id is active
\* afterwards; of the active id it returns True, calls no backend and
\* changes nothing
C30_SetActiveController ==
    [][(last' # last /\ last'.op = "set_active")
        => /\ last'.arg \notin Keys(controllers)
                => /\ ~last'.result
                   /\ last'.calls = {}
                   /\ UNCHANGED <<controllers, active, lastPos, lastTime,
                                  songDur>>
           /\ last'.arg \in Keys(controllers)
                => last'.result /\ active' = last'.arg
           /\ last'.arg \in Keys(controllers) /\ last'.arg = active
                => /\ last'.calls = {}
                   /\ UNCHANGED <<controllers, active, lastPos, lastTime,
                                  songDur>>]_vars

\* An id that is not registered was refused while another controller is
\* active and a position is stored
C30_Witness ==
    /\ last.op = "set_active"
    /\ ~last.result
    /\ last.arg \notin Keys(controllers)
    /\ active # None
    /\ lastPos # NoFloat

\* The workers that have not returned
Live == {w \in DOMAIN workers : workers[w].at # "dead"}

\* C31: at most one worker is running at any time, whatever calls of
\* set_auto_progress and _stop_auto_progress_thread were made, a start
\* after a stop whose join timed out included
C31_AtMostOneWorker == Cardinality(Live) <= 1

\* C32: a call of set_active_controller, auto_select_active_controller,
\* unregister_controller or on_player_state_change that makes another
\* controller the active one asks that controller for its position and its
\* song, so that the stored position and duration are not those of the
\* controller that was active before
C32_ActiveChangeResetsExtrapolation ==
    [][(/\ last'.op \in {"set_active", "auto_select", "unregister",
                         "on_player_state_change"}
        /\ active' # active
        /\ active' # None)
        => LET c == DictGet(controllers', active') IN
           {Call(c, "get_position", NoFloat),
            Call(c, "get_current_song", NoFloat)} \subseteq last'.calls]_vars

\* The step is an iteration of the worker (where the clock is the only
\* thing that moves without a call)
TickStep == last'.op = "tick" /\ now' = now

\* C33: an iteration that finds the extrapolated position at or beyond the
\* known duration stores and emits the duration and leaves the worker not
\* confirmed playing; an iteration of a worker that is not confirmed
\* playing asks the active controller for its state and extrapolates only
\* if told PLAYING; an iteration of a worker that is confirmed playing
\* calls no backend
C33_EndOfSongReverifies ==
    [][TickStep =>
        /\ (/\ last'.events # <<>>
            /\ lastPos # NoFloat /\ lastTime # NoFloat /\ songDur # NoFloat
            /\ lastPos + (now - lastTime) >= songDur)
              => /\ lastPos' = songDur
                 /\ last'.events[1].num = songDur
                 /\ ~isPlaying'
        /\ (~isPlaying /\ autoProgress > 0 /\ ActiveController(Eng) # None)
              => /\ Call(ActiveController(Eng), "get_player_info", NoFloat)
                      \in last'.calls
                 /\ last'.events # <<>> => last'.report = PLAYING
        /\ isPlaying => last'.calls = {}]_vars

\* A worker that was confirmed playing reached the end of the song: it
\* called no backend, emitted the duration and is not confirmed playing
C33_Witness ==
    /\ last.op = "tick"
    /\ last.calls = {}
    /\ Len(last.events) = 1
    /\ last.events[1].num = songDur
    /\ lastPos = songDur
    /\ ~isPlaying

\* C34: the stored interval is never negative, and a step of the worker
\* that is made while the interval is 0 hands nothing to the listeners and
\* leaves the stored position, its timestamp and the duration as they were
C34_NoTickWhileDisabled ==
    [][/\ autoProgress' >= 0
       /\ (autoProgress = 0 /\ threads'["worker"] # threads["worker"])
            => /\ UNCHANGED <<lastPos, lastTime, songDur>>
               /\ last' # last => last'.events = <<>>]_vars

\* C35: a song, volume or position event of a registered controller that
\* is not the active one is not handed to the listeners and leaves the
\* extrapolation state as it was; a state report other than PLAYING of a
\* controller that is not the active one is not handed to the listeners
\* and leaves the active id as it was
C35_OnlyActiveControllerBroadcast ==
    [][/\ (/\ last' # last
           /\ last'.op = "process_changes"
           /\ last'.ctrl \in Values(controllers)
           /\ last'.ctrl # ActiveController(Eng))
             => /\ last'.events = <<>>
                /\ UNCHANGED <<lastPos, lastTime, songDur>>
       /\ (/\ last' # last
           /\ last'.op = "on_player_state_change"
           /\ last'.outcome # PLAYING
           /\ last'.arg # active)
             => /\ last'.events = <<>>
                /\ active' = active]_vars

\* C36: a play() or seek() that succeeds asks the active controller for
\* its position, which is what it stores; a play() or seek() that fails
\* with no report of the backend leaves the extrapolation state as it was
C36_PlaySeekRefreshFromBackend ==
    [][/\ (last' # last /\ last'.op \in {"play", "seek"} /\ last'.result)
             => Call(last'.ctrl, "get_position", NoFloat) \in last'.calls
       /\ (/\ last' # last
           /\ last'.op \in {"play", "seek"}
           /\ ~last'.result
           /\ last'.report = None)
             => UNCHANGED <<lastPos, lastTime, songDur>>]_vars

\* C37: a dispatch during which a callback takes a listener out does not
\* end with an exception, and every listener of the event's kind that is
\* still registered afterwards has been called exactly once
C37_StableIteration ==
    last.op = "notify_listeners" =>
        \A ev \in Dispatched :
            /\ ~ev.escaped
            /\ \A l \in listeners :
                   l.kind = ev.kind => ev.invoked[l.cb] = 1

\* C38: the handling of a PLAYING report of a controller that is not the
\* active one ends with that controller active, although every other
\* controller calls the handler from inside the pause() it is sent: the
\* handler is entered once for each of them and no more, and their
\* reports are not handed to the listeners
C38_PromotionTerminates ==
    PromotionHandled =>
        /\ active = last.arg
        /\ last.nested <= Cardinality(OtherControllers)
        /\ Len(last.events) = 1
        /\ last.events[1].src = last.arg

\* Two other controllers have reported from inside their pause()
C38_Witness ==
    /\ PromotionHandled
    /\ last.nested = 2
    /\ active = last.arg
    /\ Cardinality(Paused(last.calls)) = 2

\* Thread t is at the entry of a "with self._lock" and does not get the
\* lock
Blocked(t) ==
    /\ threads[t].todo # <<>>
    /\ Head(threads[t].todo) = "acq"
    /\ ~CanAcquire(t)

EventOps == {"on_player_state_change", "on_song_change", "on_position_change",
             "process_changes"}

\* C40: the engine is a listener of the registered controllers and of no
\* other, so that after unregister_controller has returned a handler of
\* the engine runs for the controller only if the notification was under
\* way before; an event the controller raises afterwards reaches neither
\* the listeners of the engine nor its state
C40_UnregisterUnsubscribes ==
    [][/\ subscribed' = Values(controllers')
       /\ (last' # last /\ last'.op \in EventOps)
             => \/ last'.ctrl \in Values(controllers)
                \/ \E n \in inflight : n.ctrl = last'.ctrl]_vars

\* The active controller was unregistered while a position was stored and
\* another controller is registered; the engine no longer listens to it
C40_Witness ==
    /\ last.op = "unregister"
    /\ last.result
    /\ last.preActive = last.arg
    /\ last.ctrl \notin subscribed
    /\ controllers # <<>>
    /\ lastPos # NoFloat

====
